------------------------- MODULE HttpServerAwaitable -------------------------
(***************************************************************************)
(* examples/boost/http_server_awaitable.cc, http_server_awaitable2.cc and  *)
(* http_server_awaitable_test.cc: the chain of http_server_async.cpp as a  *)
(* coroutine per connection, on the executor of the listener instead of a  *)
(* strand.  An error of accept ends do_listen.                             *)
(***************************************************************************)
EXTENDS HttpNetwork

VARIABLES accepting, shut, timer

\* Every request gets the same response.  The end of the stream leaves do_session
\* as an exception, so there is no shutdown then.
Awaitable == INSTANCE HttpServerAsync
               WITH Handler <- "dummy", CatchesEof <- FALSE, Strands <- FALSE

handle_request(r) == Awaitable!handle_request(r)
do_listen(c) == Awaitable!on_accept(c)
do_session(c) == Awaitable!Handlers(c) \/ Awaitable!Expires(c)

\* Every request is answered "not found".  No shutdown at the end of the stream.
Awaitable2 == INSTANCE HttpServerAsync
                WITH Handler <- "not_found", CatchesEof <- FALSE, Strands <- FALSE

handle_request_2(r) == Awaitable2!handle_request(r)
do_listen_2(c) == Awaitable2!on_accept(c)
do_session_2(c) == Awaitable2!Handlers(c) \/ Awaitable2!Expires(c)

\* The end of the stream is caught, so that a shutdown follows.  handle_request
\* returns its dummy response before it looks at anything.
AwaitableTest == INSTANCE HttpServerAsync
                   WITH Handler <- "dummy", CatchesEof <- TRUE, Strands <- FALSE

handle_request_test(r) == AwaitableTest!handle_request(r)
do_listen_test(c) == AwaitableTest!on_accept(c)
do_session_test(c) == AwaitableTest!Handlers(c) \/ AwaitableTest!Expires(c)
=============================================================================
