----------------------------- MODULE MCHttpServer -----------------------------
EXTENDS HttpServer, TLC

(* Four seconds around the end of a minute. *)
At(h, m, s) == [year |-> 2015, month |-> 6, day |-> 30, hour |-> h, minute |-> m, second |-> s]
MCMoments == <<At(12, 30, 57), At(12, 30, 58), At(12, 30, 59), At(12, 31, 0)>>
===============================================================================
