----------------------------- MODULE MCRetire -----------------------------
(* A small instance of Retire.                                             *)
EXTENDS Retire, TLC

CONSTANTS c1, l1, l2, v1, f, x, y

Def(negative, positive, consumer, other) ==
  [needs |-> {f}, reads |-> {f},
   passes |-> <<negative, positive, consumer, other>>]

Only(S) == [{f} -> S]

(* The check holds with one content and not with the other; the second     *)
(* definition asks for less.                                               *)
MCDefs == {Def({}, Only({x}), {}, Only({x, y})),
           Def({}, Only({x, y}), Only({x}), Only({y}))}

Line(status) == [status |-> status, sink |-> f, verifier |-> v1,
                 evidence |-> None, dated |-> None]

MCLines == l1 :> Line("checklist") @@ l2 :> Line("pending")

MCNaming == [l \in {l1, l2} |-> {x}]
=============================================================================
