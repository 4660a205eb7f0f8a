-------------------------- MODULE MCResearchEngine --------------------------
(***************************************************************************)
(* Two symbols over five sessions, the first a warm-up.  A rises, gaps and crashes; B is flat,   *)
(* so that it is what a plan for A is weighed against.                      *)
(***************************************************************************)
EXTENDS ResearchEngine

CONSTANTS A, B

MCSymbols == {A, B}

Bar(open, low, high, close) == [open |-> open, low |-> low, high |-> high, close |-> close]

MCBarChoices ==
    (A :> {Bar(400, 400, 400, 400), Bar(800, 800, 1200, 800), Bar(800, 200, 800, 400)})
    @@ (B :> {Bar(400, 400, 400, 400)})

Says(sells, buys) == [sells |-> sells, buys |-> buys]

MCSignalChoices ==
    {Says(<<>>, <<>>), Says(<<>>, <<A, B>>), Says(<<>>, <<B>>), Says(<<A>>, <<B>>), Says(<<B>>, <<A>>)}

MCActionChoices ==
    {[kind |-> "split", new |-> 2, old |-> 1], [kind |-> "split", new |-> 1, old |-> 2],
     [kind |-> "dividend", amount |-> 100, delay |-> 1]}
=============================================================================
