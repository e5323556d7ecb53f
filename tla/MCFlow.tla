------------------------------- MODULE MCFlow -------------------------------
(* Bodies for the analyses: every flow over four conditional or unconditional
   branches, and stack code with handlers. *)
EXTENDS Flow, TLC

Ins(kind, targets) ==
    [kind |-> kind, targets |-> targets, sig |-> [params |-> 0, this |-> FALSE, void |-> TRUE]]
Call(kind, params, this, void) ==
    [Ins(kind, <<>>) EXCEPT !.sig = [params |-> params, this |-> this, void |-> void]]
Op(kind) == Ins(kind, <<>>)
Br(t) == Ins("br", <<t>>)
Leave(t) == Ins("leave", <<t>>)
If(t) == Ins("brtrue", <<t>>)
Switch(t, u) == Ins("switch", <<t, u>>)
End == Op("ret")

(* Instruction i is at offset 2i - 2 in a renumbered body. *)
At2(i) == 2 * i - 2
Code(s) == [i \in DOMAIN s |-> [offset |-> At2(i)] @@ s[i]]
Stale(s) == [i \in DOMAIN s |-> [offset |-> 0] @@ s[i]]
Body(code, handlers) == [code |-> code, handlers |-> handlers]

Jumps(n) == {Br(At2(t)) : t \in 1..n} \cup {If(At2(t)) : t \in 1..n}

(* Five instructions, each the end of a block. *)
Graphs == {Body(Code(<<a, b, c, d, End>>), <<>>) :
             a \in {If(At2(t)) : t \in 1..5}, b \in Jumps(5), c \in Jumps(5), d \in Jumps(5)}

Handler(kind, try, length, filter, handler) ==
    [kind |-> kind, try |-> try, length |-> length, filter |-> filter, handler |-> handler]
Handlers == {<<>>, <<Handler("catch", 0, 4, 0, 4)>>, <<Handler("finally", 2, 2, 0, 6)>>,
             <<Handler("filter", 0, 2, 4, 6), Handler("fault", 1, 0, 0, 8)>>,
             <<Handler("catch", 1, 2, 0, 4)>>, <<Handler("fault", 0, 2, 0, 3)>>}

StackOps == {Op("store"), Op("dup"), Op("binary"), Leave(8), If(6), If(0), Switch(4, 8), End,
             Call("call", 1, TRUE, FALSE), Call("newobj", 0, TRUE, TRUE)}

Stacks == {Body(Code(<<Op("load"), a, b, c, d>>), h) :
             a \in {Op("load"), Op("store"), Leave(8), If(6)}, b \in StackOps \cup {Br(7)},
             c \in StackOps \cup {Ins("beq", <<2>>), Call("calli", 0, TRUE, TRUE)},
             d \in {End, Br(2)}, h \in Handlers}
            \cup {Body(Stale(<<Op("load"), End>>), <<>>), Body(Code(<<Op("prefix"), End>>), <<>>)}

MCBodies == Graphs \cup Stacks
=============================================================================
