--------------------------- MODULE MCBacktestEngine ---------------------------
(* Four bars  of four shapes: quiet, touching both levels, falling, and so    *)
(* cheap that a sale rounds to zero; and inputs that must be rejected.        *)
EXTENDS BacktestEngine

Shape(o, h, l, c) == [open |-> o, high |-> h, low |-> l, close |-> c]
Shapes == {Shape(20, 22, 18, 20), Shape(20, 30, 12, 22),
           Shape(17, 20, 10, 12), Shape(2, 4, 2, 2)}

At(t, x) == [t |-> t, closeTime |-> t + Duration - 1,
             open |-> x.open, high |-> x.high, low |-> x.low, close |-> x.close]
Quiet == Shape(20, 22, 18, 20)
MCInputs ==
  {<<At(0, w), At(5, x), At(10, y), At(15, z)>> : w, x, y, z \in Shapes}
    \cup {<< >>, <<At(0, Quiet), At(10, Quiet)>>, <<At(0, Quiet), At(0, Quiet)>>,
          <<At(1, Quiet)>>, <<[At(0, Quiet) EXCEPT !.closeTime = 5]>>}

Enter(dir, qty, stop, target) ==
  [kind |-> "enter", dir |-> dir, qty |-> qty, stop |-> stop, target |-> target]
MCIntents ==
  {[kind |-> "exit"], Enter("long", 2, 15, 27), Enter("short", 2, 27, 15),
   Enter("long", 4, 2, 9), Enter("long", 3, 15, 27), Enter("short", 2, 15, 27)}
===============================================================================
