---------------------------- MODULE MCApiServer ----------------------------
(***************************************************************************)
(* Two clients and two threads, so that everything but the lock may        *)
(* overlap, and a cache of two entries: a request of three distinct frames *)
(* overflows it, windows meet a frame at different positions, and two of   *)
(* them repeat a frame.                                                    *)
(***************************************************************************)
EXTENDS ApiServer

CONSTANTS f1, f2, f3

Request(frames, source, supplied) ==
  [token |-> TRUE, valid |-> TRUE, frames |-> frames, source |-> source, supplied |-> supplied]

MCJob == {
  Request(<<f1, f2>>, "s3", FALSE),
  Request(<<f3, f1, f2, f3>>, "local", FALSE),
  Request(<<f1, f1>>, "s3", TRUE),
  [Request(<<f1>>, "local", FALSE) EXCEPT !.token = FALSE, !.valid = FALSE],
  [Request(<<f1>>, "local", FALSE) EXCEPT !.valid = FALSE]}
=============================================================================
