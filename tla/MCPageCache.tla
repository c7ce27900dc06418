------------------------------ MODULE MCPageCache ------------------------------
(* Two tasks on a host whose memory holds some, not all, of their files. *)
EXTENDS PageCache, TLC

CONSTANTS t1, t2, f1, f2, f3, f4

MCSize == (f1 :> 2) @@ (f2 :> 2) @@ (f3 :> 1) @@ (f4 :> 1)

chunk(op, f, n) == [op |-> op, file |-> f, n |-> n]

MCWork ==
    (t1 :> <<chunk("write", f1, 2), chunk("read", f1, 1), chunk("read", f1, 1)>>) @@
    (t2 :> <<chunk("fetch", f4, 1), chunk("write", f2, 2), chunk("write", f3, 1),
             chunk("through", f4, 1), chunk("read", f2, 2)>>)

MCDirtyPart == <<2, 5>>
===============================================================================
