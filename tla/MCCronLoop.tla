----------------------------- MODULE MCCronLoop -----------------------------
(* Small instances of CronLoop for TLC: years of two months of two days of two minutes. *)
EXTENDS CronLoop

Part(a, b, step) == [all |-> FALSE, from |-> a, to |-> b, step |-> step]
Every(step) == [Star EXCEPT !.step = step]
At(v) == {Part(v, v, 1)}

Expr(minute, hour, dom, month, dow) ==
  [minute |-> minute, hour |-> hour, dom |-> dom, month |-> month, dow |-> dow]

EitherDay == Expr({Star}, {Part(0, 0, 2)}, At(2), {Every(1)}, {Part(2, 4, 2)})
Yearly == Expr({Every(2)}, At(0), At(2), At(2), {Star})
Never == Expr({Star}, {Star}, At(3), {Star}, {Star})

SomeExprs == {EitherDay, Never}
YearlyToo == {EitherDay, Yearly}
=============================================================================
