-------------------------------- MODULE Flow --------------------------------
(***************************************************************************)
(* Control-flow analysis of a method body (flow.rs): basic blocks and      *)
(* edges, reverse postorder, immediate dominators by repeated sweeps,      *)
(* natural loops, and the depth of the evaluation stack by a worklist.     *)
(*                                                                         *)
(* An instruction is [offset, kind, targets, sig]; a kind stands for the   *)
(* opcodes the analysis treats alike, sig is what a call needs of the      *)
(* signature.  Blocks are numbered from 1 here and from 0 in the code.     *)
(***************************************************************************)
EXTENDS Integers, Sequences, SequencesExt, FiniteSets, FiniteSetsExt

CONSTANTS
    Bodies,       \* [code, handlers] the analysis is run on
    StackLimit,   \* the largest depth a header can hold (65535)
    Unset         \* usize::MAX and u32::MAX

ASSUME StackLimitAssumption == StackLimit \in Nat

VARIABLES
    body,         \* the body analysed
    pc,           \* build, order, dominators, loops, depth, done or failed
    cfg,          \* [blocks, succs, preds, entries]
    order,        \* the blocks in reverse postorder
    idom,         \* immediate dominator of each block, or Unset
    loops,        \* the natural loops found
    depth,        \* stack depth at the entry of each block, or Unset
    work,         \* worklist of blocks
    max           \* the deepest stack so far

vars == <<body, pc, cfg, order, idom, loops, depth, work, max>>

----------------------------------------------------------------------------
(* Basic blocks. *)

Unconditional == {"br", "leave"}
Conditional == {"brtrue", "beq", "switch"}
IsTerminator(ins) == ins.kind \in Unconditional \cup Conditional \cup {"ret"}

Offsets(code) == {code[i].offset : i \in DOMAIN code}

(* The map from offsets to instructions: of several with one offset the last. *)
At(code, offset) == CHOOSE i \in DOMAIN code :
    code[i].offset = offset /\ \A j \in DOMAIN code : code[j].offset = offset => j <= i

(* The offset a terminator makes a leader: the next one in use. *)
Following(code, i) == {o \in Offsets(code) : o > code[i].offset
                          /\ \A p \in Offsets(code) : p > code[i].offset => o <= p}

(* The offsets a handler makes leaders; an absent filter is at 0. *)
HandlerStarts(h) == {h.handler} \cup (IF h.filter # 0 THEN {h.filter} ELSE {})

Malformed(code, handlers) ==
    \/ \E i \in DOMAIN code : ~(Range(code[i].targets) \subseteq Offsets(code))
    \/ \E k \in DOMAIN handlers :
          \/ ~(HandlerStarts(handlers[k]) \subseteq Offsets(code))
          \/ handlers[k].length > 0 /\ handlers[k].try \notin Offsets(code)

(* A mutation: what follows a terminator does not start a block. *)
TargetLeaders(code, handlers) ==
    {code[1].offset} \cup UNION {Range(code[i].targets) : i \in DOMAIN code}
        \cup UNION {HandlerStarts(handlers[k]) : k \in DOMAIN handlers}

Leaders(code, handlers) ==
    {code[1].offset}
        \cup UNION {Range(code[i].targets) : i \in DOMAIN code}
        \cup UNION {Following(code, i) : i \in {j \in DOMAIN code : IsTerminator(code[j])}}
        \cup UNION {HandlerStarts(handlers[k]) : k \in DOMAIN handlers}
        \cup ({handlers[k].try : k \in DOMAIN handlers} \cap Offsets(code))

(* The blocks, in ascending offset order: [lo, hi) becomes lo..hi. *)
Blocks(code, leaders) ==
    LET starts == SetToSortSeq(leaders, <)
    IN  [b \in DOMAIN starts |->
            [start |-> starts[b], lo |-> At(code, starts[b]),
             hi |-> IF b < Len(starts) THEN At(code, starts[b + 1]) - 1 ELSE Len(code)]]

BlockAt(blocks, offset) == CHOOSE b \in DOMAIN blocks : blocks[b].start = offset

SuccessorsOf(code, blocks, b) ==
    LET ins == code[blocks[b].hi]
        taken == {BlockAt(blocks, t) : t \in Range(ins.targets)}
        next == IF b < Len(blocks) THEN {b + 1} ELSE {}
    IN  CASE ins.kind \in Unconditional -> taken
          [] ins.kind \in Conditional -> taken \cup next
          [] ins.kind = "ret" -> {}
          [] OTHER -> next

(* Handlers are entered with the exception on the stack, finally and fault
   blocks with nothing; a filter is entered twice. *)
HandlerEntries(blocks, h) ==
    (IF h.kind = "filter" /\ h.filter # 0 THEN <<[block |-> BlockAt(blocks, h.filter), depth |-> 1]>>
     ELSE <<>>)
    \o <<[block |-> BlockAt(blocks, h.handler),
          depth |-> IF h.kind \in {"catch", "filter"} THEN 1 ELSE 0]>>

Cfg(code, handlers) ==
    LET blocks == Blocks(code, Leaders(code, handlers))
        succs == [b \in DOMAIN blocks |-> SetToSortSeq(SuccessorsOf(code, blocks, b), <)]
    IN  [blocks |-> blocks,
         succs |-> succs,
         preds |-> [b \in DOMAIN blocks |->
                      SetToSortSeq({p \in DOMAIN blocks : b \in Range(succs[p])}, <)],
         entries |-> FlattenSeq([k \in DOMAIN handlers |-> HandlerEntries(blocks, handlers[k])])]

----------------------------------------------------------------------------
(* Order, dominators, loops. *)

(* The depth-first search that takes successors in order; blocks are put in
   front of "out" when they are left.  Reverse postorder is the result. *)
RECURSIVE Search(_, _, _, _)
Search(succs, stack, seen, out) ==
    IF stack = <<>> THEN out
    ELSE LET top == Last(stack)
             k == top.next
         IN  IF k > Len(succs[top.block])
             THEN Search(succs, Front(stack), seen, <<top.block>> \o out)
             ELSE LET s == succs[top.block][k]
                      advanced == [stack EXCEPT ![Len(stack)].next = k + 1]
                  IN  IF s \in seen THEN Search(succs, advanced, seen, out)
                      ELSE Search(succs, Append(advanced, [block |-> s, next |-> 1]),
                                  seen \cup {s}, out)

ReversePostorder(succs) == Search(succs, <<[block |-> 1, next |-> 1]>>, {1}, <<>>)

Position(rpo, b) == CHOOSE k \in DOMAIN rpo : rpo[k] = b

(* intersect: the two chains of dominators climbed until they meet. *)
RECURSIVE Intersect(_, _, _, _)
Intersect(rpo, dom, a, b) ==
    IF a = b THEN a
    ELSE IF Position(rpo, a) > Position(rpo, b) THEN Intersect(rpo, dom, dom[a], b)
    ELSE Intersect(rpo, dom, a, dom[b])

(* What the processed predecessors of a block have in common. *)
CommonDominator(rpo, preds, dom, b) ==
    LET processed == SelectSeq(preds[b], LAMBDA p : dom[p] # Unset)
        meet[k \in 1..Len(processed)] ==
            IF k = 1 THEN processed[1] ELSE Intersect(rpo, dom, meet[k - 1], processed[k])
    IN  IF processed = <<>> THEN Unset ELSE meet[Len(processed)]

(* One sweep over the blocks but the first, each seeing the ones before. *)
Sweep(rpo, preds, dom) ==
    LET swept[k \in 1..Len(rpo)] ==
            IF k = 1 THEN dom
            ELSE LET before == swept[k - 1]
                     new == CommonDominator(rpo, preds, before, rpo[k])
                 IN  IF new = Unset THEN before ELSE [before EXCEPT ![rpo[k]] = new]
    IN  swept[Len(rpo)]

(* Header on tail's chain of dominators. *)
RECURSIVE OnChain(_, _, _)
OnChain(dom, header, b) ==
    \/ b = header
    \/ dom[b] \notin {b, Unset} /\ OnChain(dom, header, dom[b])

(* The blocks met going back from the tail, stopping at the header. *)
RECURSIVE Backwards(_, _, _, _)
Backwards(preds, header, stack, found) ==
    IF stack = {} THEN found
    ELSE LET b == CHOOSE x \in stack : TRUE
             new == IF b = header THEN {} ELSE Range(preds[b]) \ found
         IN  Backwards(preds, header, (stack \ {b}) \cup new, found \cup new)

(* A mutation: the search goes on behind the header. *)
LoopsBeyondHeader(c, dom) ==
    {[header |-> e[2], tail |-> e[1], body |-> Backwards(c.preds, 0, {e[1]}, {e[1], e[2]})] :
        e \in {x \in (DOMAIN c.succs) \X (DOMAIN c.succs) :
                  x[2] \in Range(c.succs[x[1]]) /\ OnChain(dom, x[2], x[1])}}

NaturalLoops(c, dom) ==
    {[header |-> e[2], tail |-> e[1], body |-> Backwards(c.preds, e[2], {e[1]}, {e[1], e[2]})] :
        e \in {x \in (DOMAIN c.succs) \X (DOMAIN c.succs) :
                  x[2] \in Range(c.succs[x[1]]) /\ OnChain(dom, x[2], x[1])}}

----------------------------------------------------------------------------
(* What an instruction takes from the stack and puts on it.  A prefix only
   changes the next instruction; "ret" stands for all that end a method or a
   handler, whose own pops are left out. *)
Effects == [prefix |-> <<0, 0>>, load |-> <<0, 1>>, dup |-> <<1, 2>>, store |-> <<1, 0>>,
            unary |-> <<1, 1>>, binary |-> <<2, 1>>, stind |-> <<2, 0>>, stelem |-> <<3, 0>>,
            br |-> <<0, 0>>, leave |-> <<0, 0>>, ret |-> <<0, 0>>,
            brtrue |-> <<1, 0>>, switch |-> <<1, 0>>, beq |-> <<2, 0>>]

StackEffect(ins) ==
    LET this == IF ins.sig.this THEN 1 ELSE 0
        result == IF ins.sig.void THEN 0 ELSE 1
    IN  CASE ins.kind = "call" -> <<ins.sig.params + this, result>>
          [] ins.kind = "newobj" -> <<ins.sig.params, 1>>
          [] ins.kind = "calli" -> <<ins.sig.params + this + 1, result>>
          [] OTHER -> Effects[ins.kind]

Pops(ins) == StackEffect(ins)[1]
Pushes(ins) == StackEffect(ins)[2]

(* The depth of the stack through a block: [at, max], at = -1 on underflow. *)
Through(code, block, entry, sofar) ==
    LET run[i \in (block.lo - 1)..block.hi] ==
            IF i < block.lo THEN [at |-> entry, max |-> sofar]
            ELSE LET d == run[i - 1]
                     left == d.at - Pops(code[i])
                 IN  IF d.at < 0 \/ left < 0 THEN [d EXCEPT !.at = -1]
                     ELSE [at |-> left + Pushes(code[i]),
                           max |-> Max({d.max, left + Pushes(code[i])})]
    IN  run[block.hi]

----------------------------------------------------------------------------
(* The analysis as a client runs it: build, dominators, loops, depth. *)
Init ==
    /\ body \in Bodies
    /\ pc = "build"
    /\ cfg = Unset /\ order = <<>> /\ idom = <<>> /\ loops = {}
    /\ depth = <<>> /\ work = <<>> /\ max = 0

Build ==
    /\ pc = "build"
    /\ IF Malformed(body.code, body.handlers)
       THEN pc' = "failed" /\ UNCHANGED cfg
       ELSE pc' = "order" /\ cfg' = Cfg(body.code, body.handlers)
    /\ UNCHANGED <<body, order, idom, loops, depth, work, max>>

Order ==
    /\ pc = "order"
    /\ order' = ReversePostorder(cfg.succs)
    /\ idom' = [b \in DOMAIN cfg.blocks |-> IF b = 1 THEN 1 ELSE Unset]
    /\ pc' = "dominators"
    /\ UNCHANGED <<body, cfg, loops, depth, work, max>>

(* A mutation: one sweep is taken to be enough. *)
SweepOnce ==
    /\ pc = "dominators"
    /\ idom' = Sweep(order, cfg.preds, idom)
    /\ pc' = "loops"
    /\ UNCHANGED <<body, cfg, order, loops, depth, work, max>>

(* Sweeps are made as long as they change something. *)
Dominators ==
    /\ pc = "dominators"
    /\ idom' = Sweep(order, cfg.preds, idom)
    /\ pc' = IF idom' = idom THEN "loops" ELSE "dominators"
    /\ UNCHANGED <<body, cfg, order, loops, depth, work, max>>

(* A mutation: handlers are put on the worklist without a depth. *)
LoopsUnseeded ==
    /\ pc = "loops"
    /\ loops' = NaturalLoops(cfg, idom)
    /\ depth' = [b \in DOMAIN cfg.blocks |-> IF b = 1 THEN 0 ELSE Unset]
    /\ work' = <<1>> \o [k \in DOMAIN cfg.entries |-> cfg.entries[k].block]
    /\ pc' = "depth"
    /\ UNCHANGED <<body, cfg, order, idom, max>>

(* The loops; then the depths of the entry and the handlers are set, later
   handlers over earlier ones, and all of them are put on the worklist. *)
Loops ==
    /\ pc = "loops"
    /\ loops' = NaturalLoops(cfg, idom)
    /\ depth' = [b \in DOMAIN cfg.blocks |->
                   LET seeds == {k \in DOMAIN cfg.entries : cfg.entries[k].block = b}
                   IN  IF seeds # {} THEN cfg.entries[Max(seeds)].depth
                       ELSE IF b = 1 THEN 0 ELSE Unset]
    /\ work' = <<1>> \o [k \in DOMAIN cfg.entries |-> cfg.entries[k].block]
    /\ pc' = "depth"
    /\ UNCHANGED <<body, cfg, order, idom, max>>

(* A mutation: a leave keeps what is on the stack. *)
Kept(ins, at) == at

(* What a block hands on: nothing survives a leave. *)
HandedOn(ins, at) == IF ins.kind = "leave" THEN 0 ELSE at

(* A mutation: a block joins the worklist whenever it is not on it. *)
SimulateAgain ==
    /\ pc = "depth" /\ work # <<>>
    /\ LET b == Last(work)
           end == Through(body.code, cfg.blocks[b], depth[b], max)
           out == HandedOn(body.code[cfg.blocks[b].hi], end.at)
       IN  IF end.at < 0 THEN pc' = "failed" /\ UNCHANGED <<depth, work, max>>
           ELSE /\ max' = end.max
                /\ depth' = [s \in DOMAIN depth |-> IF s \in Range(cfg.succs[b]) THEN out ELSE depth[s]]
                /\ work' = Front(work) \o SelectSeq(cfg.succs[b], LAMBDA s : s \notin Range(Front(work)))
                /\ UNCHANGED pc
    /\ UNCHANGED <<body, cfg, order, idom, loops>>

(* The last block of the worklist is simulated; successors not yet reached
   get its depth and join the worklist, others must agree with it. *)
Simulate ==
    /\ pc = "depth" /\ work # <<>>
    /\ LET b == Last(work)
           succs == cfg.succs[b]
           end == Through(body.code, cfg.blocks[b], depth[b], max)
           out == HandedOn(body.code[cfg.blocks[b].hi], end.at)
           fresh == SelectSeq(succs, LAMBDA s : depth[s] = Unset)
       IN  IF end.at < 0 \/ \E s \in Range(succs) : depth[s] \notin {Unset, out}
           THEN pc' = "failed" /\ UNCHANGED <<depth, work, max>>
           ELSE /\ max' = end.max
                /\ depth' = [s \in DOMAIN depth |-> IF s \in Range(fresh) THEN out ELSE depth[s]]
                /\ work' = Front(work) \o fresh
                /\ UNCHANGED pc
    /\ UNCHANGED <<body, cfg, order, idom, loops>>

Finish ==
    /\ pc = "depth" /\ work = <<>>
    /\ pc' = IF max <= StackLimit THEN "done" ELSE "failed"
    /\ UNCHANGED <<body, cfg, order, idom, loops, depth, work, max>>

Next == Build \/ Order \/ Dominators \/ Loops \/ Simulate \/ Finish

(* The calls are sequential code: they go on as long as they can.  A step is
   enabled until the analysis ends, so this is WF_vars(Next), written
   without ENABLED, which TLC evaluates slowly here. *)
Running == pc \notin {"done", "failed"}
Fairness == []<>(~Running) \/ []<><<Next>>_vars

Spec == Init /\ [][Next]_vars /\ Fairness

----------------------------------------------------------------------------
(* Properties.  The references below never mention blocks: a configuration *)
(* is an instruction, and flow is from an instruction to another.          *)

(* Offsets ascend, as renumbering leaves them. *)
Renumbered(code) == \A i, j \in DOMAIN code : i < j => code[i].offset < code[j].offset

Flows(code, i) ==
    LET taken == {At(code, t) : t \in Range(code[i].targets)}
    IN  IF code[i].kind \in Unconditional \cup {"ret"} THEN taken
        ELSE taken \cup ({i + 1} \cap DOMAIN code)

(* What is reached from a set of instructions without passing another. *)
RECURSIVE ReachedAvoiding(_, _, _)
ReachedAvoiding(code, from, without) ==
    LET next == (from \cup UNION {Flows(code, i) : i \in from}) \ without
    IN  IF next = from THEN from ELSE ReachedAvoiding(code, next, without)

First(b) == cfg.blocks[b].lo
Reachable(b) == First(b) \in ReachedAvoiding(body.code, {1}, {})
Dominates(a, b) == a = b \/ First(b) \notin ReachedAvoiding(body.code, {1} \ {First(a)}, {First(a)})

TypeOK ==
    /\ pc \in {"build", "order", "dominators", "loops", "depth", "done", "failed"}
    /\ pc \notin {"build", "failed"} => Range(order) \subseteq DOMAIN cfg.blocks
    /\ pc = "depth" => \A k \in DOMAIN work : depth[work[k]] \in Nat
    /\ max \in Nat

(* Every instruction of a renumbered body is in one block, control enters a
   block at its first instruction and leaves it at its last, and the edges
   between blocks are the flow between those. *)
BlocksFollowFlow ==
    pc = "order" /\ Renumbered(body.code) =>
        /\ \A i \in DOMAIN body.code :
              Cardinality({b \in DOMAIN cfg.blocks : i \in First(b)..cfg.blocks[b].hi}) = 1
        /\ \A b \in DOMAIN cfg.blocks : \A i \in First(b)..cfg.blocks[b].hi :
              IF i = cfg.blocks[b].hi
              THEN Flows(body.code, i) = {First(s) : s \in Range(cfg.succs[b])}
              ELSE Flows(body.code, i) = {i + 1}

(* When the sweeps end, a block's immediate dominator is its strict
   dominator that all its others dominate; blocks only exceptions reach
   have none. *)
DominatorsExact ==
    pc = "loops" /\ Renumbered(body.code) =>
        \A b \in (DOMAIN cfg.blocks) \ {1} :
            IF ~Reachable(b) THEN idom[b] = Unset
            ELSE /\ idom[b] # b /\ Dominates(idom[b], b)
                 /\ \A a \in (DOMAIN cfg.blocks) \ {b} : Dominates(a, b) => Dominates(a, idom[b])

(* A loop is a back edge to a dominator of its tail, with the blocks that
   reach the tail without passing the header. *)
LoopsNatural ==
    pc \in {"done", "failed"} /\ cfg # Unset /\ Renumbered(body.code) =>
        loops = {[header |-> h, tail |-> t,
                  body |-> {h} \cup {b \in (DOMAIN cfg.blocks) \ {h} :
                               First(t) \in ReachedAvoiding(body.code, {First(b)}, {First(h)})}] :
                   <<h, t>> \in {e \in (DOMAIN cfg.blocks) \X (DOMAIN cfg.blocks) :
                       /\ e[1] \in Range(cfg.succs[e[2]])
                       /\ e[1] = e[2] \/ (Reachable(e[2]) /\ Dominates(e[1], e[2]))}}

(* The configurations <instruction, depth> that execution meets, starting at
   the entry and at the handlers; beyond the bound there are two depths for
   one instruction already. *)
Bound == 2 + 2 * Len(body.code)
After(i, d) ==
    LET left == d - Pops(body.code[i])
    IN  {<<j, IF body.code[i].kind = "leave" THEN 0 ELSE left + Pushes(body.code[i])>> :
            j \in IF left < 0 THEN {} ELSE Flows(body.code, i)}
RECURSIVE Met(_)
Met(found) ==
    LET next == found \cup {c \in UNION {After(x[1], x[2]) : x \in found} : c[2] <= Bound}
    IN  IF next = found THEN found ELSE Met(next)
Entered == {<<1, 0>>}
    \cup UNION {{<<At(body.code, o), IF h.kind \in {"catch", "filter"} THEN 1 ELSE 0>> :
                    o \in IF h.kind = "filter" THEN HandlerStarts(h) ELSE {h.handler}} :
                h \in Range(body.handlers)}

(* The depth is computed exactly when execution can neither underflow nor
   meet an instruction at two depths nor outgrow the header, and it is then
   the greatest depth execution meets. *)
DepthExact ==
    pc \in {"done", "failed"} /\ cfg # Unset /\ Renumbered(body.code) =>
        LET met == Met(Entered)
            tops == {c[2] - Pops(body.code[c[1]]) + Pushes(body.code[c[1]]) : c \in met}
            sound == /\ \A c \in met : c[2] >= Pops(body.code[c[1]])
                     /\ \A c, e \in met : c[1] = e[1] => c[2] = e[2]
                     /\ Max(tops) <= StackLimit
        IN  IF sound THEN pc = "done" /\ max = Max(tops) ELSE pc = "failed"

(* Every analysis ends: the search, the sweeps and the worklist. *)
Terminates == <>(pc \in {"done", "failed"})

(* What is known of a body's structure when its loops are found: dominators
   and natural loops, both against reachability in the flow itself. *)
StructureExact == DominatorsExact /\ LoopsNatural
=============================================================================
