---------------------------- MODULE BpfOptimizer ----------------------------
(***************************************************************************)
(* The optimizer of libpcap and the code generator behind it: optimize.c.  *)
(* Operators on the graph of blocks that gencode.c builds; FilterCode runs *)
(* them in the order of bpf_optimize.                                      *)
(*                                                                         *)
(* A graph g is a function from block numbers to records: the statements   *)
(* of the block, its branch statement s, and the blocks that follow,       *)
(* succ[TRUE] for JT and succ[FALSE] for JF.  An edge is a pair            *)
(* <<block, sense>>.  Nil is the null pointer.                             *)
(*                                                                         *)
(* A value number stands for a computation: two statements have the same   *)
(* number when F was called with the same arguments.  Here the number is   *)
(* the triple of arguments itself, so the hash table has no counterpart.   *)
(***************************************************************************)
EXTENDS BpfMachine, SequencesExt

CONSTANT JumpLimit   \* 256 in the code: what the jt and jf of an insn can hold

Nil == 0
Stmt(code, k) == [code |-> code, k |-> k]
NOP == <<"NOP", "", "">>
LDIMM == <<"LD", "IMM", "">>
LDXIMM == <<"LDX", "IMM", "">>
LDMEM == <<"LD", "MEM", "">>
LDXMEM == <<"LDX", "MEM", "">>
ST == <<"ST", "", "">>
TAX == <<"MISC", "TAX", "">>
TXA == <<"MISC", "TXA", "">>
MSH == <<"LDX", "MSH", "B">>
RETK == <<"RET", "K", "">>

A_ATOM == MemWords
X_ATOM == MemWords + 1
Atoms == 0..X_ATOM

JT(g, b) == g[b].succ[TRUE]
JF(g, b) == g[b].succ[FALSE]
IsRet(g, b) == g[b].s.code[1] = "RET"

-----------------------------------------------------------------------------
(* Walks over the graph.                                                   *)

(* Blocks in the order in which a depth-first walk leaves them; the branch *)
(* taken first differs between find_levels_r (JT) and convert_code_r (JF). *)
RECURSIVE Leaving(_, _, _, _)
Leaving(g, b, first, seen) ==
    IF b = Nil \/ Contains(seen, b) THEN seen
    ELSE LET one == Leaving(g, g[b].succ[first], first, seen)
         IN  Append(Leaving(g, g[b].succ[~first], first, one), b)

(* Blocks in the order in which number_blks_r meets them.                  *)
RECURSIVE Meeting(_, _, _)
Meeting(g, b, seen) ==
    IF b = Nil \/ Contains(seen, b) THEN seen
    ELSE Meeting(g, JF(g, b), Meeting(g, JT(g, b), Append(seen, b)))

(* opt_init: number the blocks from the root.                              *)
opt_init(g, root) ==
    LET ord == Meeting(g, root, <<>>)
        Num(b) == IF b = Nil THEN Nil ELSE SelectInSeq(ord, LAMBDA c : c = b)
    IN  [i \in 1..Len(ord) |->
            [stmts |-> g[ord[i]].stmts, s |-> g[ord[i]].s,
             succ |-> [e \in BOOLEAN |-> Num(g[ord[i]].succ[e])]]]

(* find_levels: levels[i + 1] lists the blocks of level i, the last one    *)
(* put there first.                                                        *)
find_levels(g, root) ==
    LET post == Leaving(g, root, TRUE, <<>>)
        Height(lev, b) ==
            [lev EXCEPT ![b] = IF JT(g, b) = Nil THEN 0
                               ELSE LET t == lev[JT(g, b)]
                                        f == lev[JF(g, b)]
                                    IN  1 + (IF t > f THEN t ELSE f)]
        level == FoldLeft(Height, [b \in DOMAIN g |-> 0], post)
    IN  [i \in 1..(level[root] + 1) |->
            Reverse(SelectSeq(post, LAMBDA b : level[b] = i - 1))]

(* From the root down, and from level 1 up.                                *)
Downward(levels) == FlattenSeq(Reverse(levels))
Upward(levels) == FlattenSeq(Tail(levels))

(* find_dom: the blocks on every path from the root.                       *)
find_dom(g, root, levels) ==
    LET Visit(dom, b) ==
            LET d == dom[b] \cup {b}
            IN  IF JT(g, b) = Nil THEN [dom EXCEPT ![b] = d]
                ELSE [dom EXCEPT ![b] = d, ![JT(g, b)] = @ \cap d,
                                 ![JF(g, b)] = @ \cap d]
    IN  FoldLeft(Visit, [b \in DOMAIN g |-> IF b = root THEN {} ELSE DOMAIN g],
                 Downward(levels))

(* find_edom and propedom: the edges on every path to an edge.             *)
find_edom(g, root, levels) ==
    LET Prop(edom, e) ==
            LET d == edom[e] \cup {e}
                c == g[e[1]].succ[e[2]]
            IN  IF c = Nil THEN [edom EXCEPT ![e] = d]
                ELSE [edom EXCEPT ![e] = d, ![<<c, TRUE>>] = @ \cap d,
                                  ![<<c, FALSE>>] = @ \cap d]
        Visit(edom, b) == Prop(Prop(edom, <<b, TRUE>>), <<b, FALSE>>)
        Edges == (DOMAIN g) \X BOOLEAN
    IN  FoldLeft(Visit, [e \in Edges |-> IF e[1] = root THEN {} ELSE Edges],
                 Downward(levels))

(* find_inedges: the edges into each block, the last one linked first.     *)
find_inedges(g, levels) ==
    LET Link(ins, e) == [ins EXCEPT ![g[e[1]].succ[e[2]]] = <<e>> \o @]
        Visit(ins, b) == IF JT(g, b) = Nil THEN ins
                         ELSE Link(Link(ins, <<b, TRUE>>), <<b, FALSE>>)
    IN  FoldLeft(Visit, [b \in DOMAIN g |-> <<>>], Downward(levels))

-----------------------------------------------------------------------------
(* Which registers a statement uses and defines, and which a block needs.  *)

atomuse(s) ==
    LET cl == s.code[1]
    IN  CASE cl \in {"NOP", "RET"} -> {}
          [] cl \in {"LD", "LDX"} -> CASE s.code[2] = "IND" -> {X_ATOM}
                                       [] s.code[2] = "MEM" -> {s.k}
                                       [] OTHER -> {}
          [] cl = "ST" -> {A_ATOM}
          [] cl = "STX" -> {X_ATOM}
          [] cl \in {"JMP", "ALU"} -> IF s.code[3] = "X" THEN {A_ATOM, X_ATOM}
                                                         ELSE {A_ATOM}
          [] cl = "MISC" -> IF s.code[2] = "TXA" THEN {X_ATOM} ELSE {A_ATOM}

atomdef(s) ==
    LET cl == s.code[1]
    IN  CASE cl \in {"LD", "ALU"} -> {A_ATOM}
          [] cl = "LDX" -> {X_ATOM}
          [] cl \in {"ST", "STX"} -> {s.k}
          [] cl = "MISC" -> IF s.code[2] = "TAX" THEN {X_ATOM} ELSE {A_ATOM}
          [] OTHER -> {}

compute_local_ud(blk) ==
    LET Visit(u, s) ==
            LET use == u.use \cup (atomuse(s) \ u.def)
            IN  [def |-> u.def \cup atomdef(s), use |-> use,
                 kill |-> u.kill \cup (atomdef(s) \ use)]
    IN  FoldLeft(Visit, [def |-> {}, use |-> {}, kill |-> {}],
                 IF blk.s.code[1] = "JMP" THEN Append(blk.stmts, blk.s) ELSE blk.stmts)

(* find_ud: what is used after each block, from the leaves up.             *)
find_ud(g, levels) ==
    LET local == [b \in DOMAIN g |-> compute_local_ud(g[b])]
        Visit(u, b) ==
            LET out == u.in[JT(g, b)] \cup u.in[JF(g, b)]
            IN  [u EXCEPT !.out[b] = out, !.in[b] = @ \cup (out \ local[b].kill)]
        u0 == [in |-> [b \in DOMAIN g |-> local[b].use],
               out |-> [b \in DOMAIN g |-> {}]]
    IN  FoldLeft(Visit, u0, Upward(levels)).out

-----------------------------------------------------------------------------
(* Value numbers, and one statement.                                       *)

Unknown == <<>>
F(code, v0, v1) == <<code, v0, v1>>
K(i) == F(LDIMM, i, 0)
IsConst(v) == v # Unknown /\ v[1] = LDIMM
ConstVal(v) == v[2]

(* What opt_stmt leaves behind: the statement, the values, whether done    *)
(* was cleared, and whether bpf_error was called.                          *)
Left(s, val, changed) == [s |-> s, val |-> val, changed |-> changed, err |-> FALSE]

vstore(s, val, atom, new, alter, changed) ==
    IF alter /\ val[atom] = new
    THEN Left(Stmt(NOP, s.k), val, changed)
    ELSE Left(s, [val EXCEPT ![atom] = new], changed)

(* fold_op, and the assignment of the value that follows it.               *)
fold_op(s, val, a, b) ==
    LET op == s.code[2]
    IN  IF op \in {"DIV", "MOD"} /\ b = 0
        THEN [Left(s, val, TRUE) EXCEPT !.err = TRUE]
        ELSE LET k == ALU(op, a, b)
             IN  Left(Stmt(LDIMM, k), [val EXCEPT ![A_ATOM] = K(k)], TRUE)

OptAluK(s, val, alter) ==
    LET op == s.code[2]
        a  == val[A_ATOM]
    IN  CASE alter /\ s.k = 0 /\ op \in {"ADD", "LSH", "RSH", "OR", "XOR"} ->
                Left(Stmt(NOP, s.k), val, FALSE)
          [] alter /\ s.k = 0 /\ op \in {"MUL", "AND"} ->
                Left(Stmt(LDIMM, 0), [val EXCEPT ![A_ATOM] = K(0)], FALSE)
          [] alter /\ IsConst(a) /\ ~(s.k = 0 /\ op \in {"ADD", "LSH", "RSH", "OR",
                                                         "XOR", "MUL", "AND"}) ->
                fold_op(s, val, ConstVal(a), s.k)
          [] OTHER -> Left(s, [val EXCEPT ![A_ATOM] = F(s.code, a, K(s.k))], FALSE)

OptAluX(s, val, alter) ==
    LET op == s.code[2]
        a  == val[A_ATOM]
        x  == val[X_ATOM]
        Zero == IsConst(a) /\ ConstVal(a) = 0
        byK == Stmt(<<"ALU", op, "K">>, ConstVal(x))
    IN  CASE alter /\ IsConst(x) /\ IsConst(a) ->
                fold_op(s, val, ConstVal(a), ConstVal(x))
          [] alter /\ IsConst(x) /\ ~IsConst(a) ->
                Left(byK, [val EXCEPT ![A_ATOM] = F(byK.code, a, K(byK.k))], TRUE)
          [] alter /\ ~IsConst(x) /\ Zero /\ op \in {"ADD", "OR", "XOR"} ->
                vstore(Stmt(TXA, s.k), val, A_ATOM, x, alter, FALSE)
          [] alter /\ ~IsConst(x) /\ Zero
                   /\ op \in {"MUL", "DIV", "MOD", "AND", "LSH", "RSH"} ->
                vstore(Stmt(LDIMM, 0), val, A_ATOM, K(0), alter, FALSE)
          [] OTHER -> Left(s, [val EXCEPT ![A_ATOM] = F(s.code, a, x)], FALSE)

(* A load of a cell: of its constant when that is known.                   *)
OptLoadMem(s, val, alter, atom, imm) ==
    LET v == val[s.k]
        folds == alter /\ IsConst(v)
    IN  vstore(IF folds THEN Stmt(imm, ConstVal(v)) ELSE s, val, atom, v, alter, folds)

opt_stmt(s, val, alter) ==
    LET cl == s.code[1]
        op == s.code[2]
        x  == val[X_ATOM]
        abs == Stmt(<<"LD", "ABS", s.code[3]>>, (s.k + ConstVal(x)) % WordSize)
        neg == Stmt(LDIMM, (-ConstVal(val[A_ATOM])) % WordSize)
    IN  CASE cl = "LD" /\ op = "ABS" ->
                vstore(s, val, A_ATOM, F(s.code, s.k, 0), alter, FALSE)
          [] cl = "LD" /\ op = "IND" ->
                IF alter /\ IsConst(x)
                THEN vstore(abs, val, A_ATOM, F(abs.code, abs.k, 0), alter, TRUE)
                ELSE vstore(s, val, A_ATOM, F(s.code, s.k, x), alter, FALSE)
          [] cl = "LD" /\ op = "LEN" ->
                vstore(s, val, A_ATOM, F(s.code, 0, 0), alter, FALSE)
          [] cl = "LD" /\ op = "IMM" -> vstore(s, val, A_ATOM, K(s.k), alter, FALSE)
          [] cl = "LDX" /\ op = "IMM" -> vstore(s, val, X_ATOM, K(s.k), alter, FALSE)
          [] cl = "LDX" /\ op = "MSH" ->
                vstore(s, val, X_ATOM, F(s.code, s.k, 0), alter, FALSE)
          [] cl = "LD" /\ op = "MEM" -> OptLoadMem(s, val, alter, A_ATOM, LDIMM)
          [] cl = "LDX" /\ op = "MEM" -> OptLoadMem(s, val, alter, X_ATOM, LDXIMM)
          [] cl = "ALU" /\ op = "NEG" ->
                IF alter /\ IsConst(val[A_ATOM])
                THEN Left(neg, [val EXCEPT ![A_ATOM] = K(neg.k)], FALSE)
                ELSE Left(s, [val EXCEPT ![A_ATOM] = F(s.code, @, 0)], FALSE)
          [] cl = "ALU" /\ s.code[3] = "K" -> OptAluK(s, val, alter)
          [] cl = "ALU" /\ s.code[3] = "X" -> OptAluX(s, val, alter)
          [] cl = "MISC" /\ op = "TXA" -> vstore(s, val, A_ATOM, x, alter, FALSE)
          [] cl = "MISC" /\ op = "TAX" ->
                vstore(s, val, X_ATOM, val[A_ATOM], alter, FALSE)
          [] cl = "ST" -> vstore(s, val, s.k, val[A_ATOM], alter, FALSE)
          [] cl = "STX" -> vstore(s, val, s.k, x, alter, FALSE)
          [] OTHER -> Left(s, val, FALSE)

-----------------------------------------------------------------------------
(* One block.                                                              *)

(* this_op: the first statement at or after i that is not a NOP; one past  *)
(* the end when there is none.                                             *)
RECURSIVE this_op(_, _)
this_op(stmts, i) ==
    IF i > Len(stmts) \/ stmts[i].code # NOP THEN i ELSE this_op(stmts, i + 1)

SetCode(stmts, i, code) == [stmts EXCEPT ![i].code = code]
CodeAt(stmts, i) == IF i > Len(stmts) THEN NOP ELSE stmts[i].code

(* What is done with the pair of neighbours i and nx: "st M[k]; ldx M[k]"  *)
(* becomes "st M[k]; tax", "ld #k; tax" becomes "ldx #k; txa" ...          *)
PeepStore(stmts, i, nx) ==
    IF stmts[i].code = ST /\ stmts[nx].code = LDXMEM /\ stmts[i].k = stmts[nx].k
    THEN SetCode(stmts, nx, TAX) ELSE stmts

PeepSwap(stmts, i, nx) ==
    IF stmts[i].code = LDIMM /\ stmts[nx].code = TAX
    THEN SetCode(SetCode(stmts, i, LDXIMM), nx, TXA) ELSE stmts

(* ... and a constant added to X for an indirect load goes into the load.  *)
PeepIndex(stmts, i, nx, out_use) ==
    LET add == IF stmts[nx].code = MSH THEN this_op(stmts, nx + 1) ELSE nx
        tax == this_op(stmts, add + 1)
        ild == this_op(stmts, tax + 1)
    IN  IF /\ stmts[i].code = LDIMM
           /\ X_ATOM \notin out_use
           /\ CodeAt(stmts, add) = <<"ALU", "ADD", "X">>
           /\ CodeAt(stmts, tax) = TAX
           /\ CodeAt(stmts, ild)[1] = "LD" /\ CodeAt(stmts, ild)[2] = "IND"
        THEN SetCode(SetCode(SetCode(
                 [stmts EXCEPT ![ild].k = (@ + stmts[i].k) % WordSize],
                 i, NOP), add, NOP), tax, NOP)
        ELSE stmts

(* All pairs, from the statement at "from" on, and the last statement that *)
(* was a right neighbour.                                                  *)
RECURSIVE PeepPairs(_, _, _, _)
PeepPairs(stmts, from, last, out_use) ==
    LET i  == this_op(stmts, from)
        nx == this_op(stmts, i + 1)
    IN  IF i > Len(stmts) \/ nx > Len(stmts)
        THEN [stmts |-> stmts, last |-> last]
        ELSE PeepPairs(PeepIndex(PeepSwap(PeepStore(stmts, i, nx), i, nx), i, nx, out_use),
                       nx, nx, out_use)

opt_not(blk) == [blk EXCEPT !.succ = [e \in BOOLEAN |-> blk.succ[~e]]]

(* The branch after the last statement: a subtraction or a mask before a   *)
(* comparison goes into the comparison.                                    *)
PeepBranch(blk, last, val, out_use) ==
    LET code == blk.stmts[last].code
        x    == val[X_ATOM]
        Drop == [blk EXCEPT !.stmts[last].code = NOP]
        k    == blk.s.k
    IN  CASE blk.s.code # <<"JMP", "JEQ", "K">> \/ A_ATOM \in out_use -> blk
          [] code = <<"ALU", "SUB", "X">> /\ IsConst(x) ->
                [Drop EXCEPT !.s.k = (k + ConstVal(x)) % WordSize]
          [] code = <<"ALU", "SUB", "X">> /\ ~IsConst(x) /\ k = 0 ->
                [Drop EXCEPT !.s.code = <<"JMP", "JEQ", "X">>]
          [] code = <<"ALU", "SUB", "K">> ->
                [Drop EXCEPT !.s.k = (k + blk.stmts[last].k) % WordSize]
          [] code = <<"ALU", "AND", "K">> /\ k = 0 ->
                opt_not([Drop EXCEPT !.s = Stmt(<<"JMP", "JSET", "K">>,
                                                blk.stmts[last].k)])
          [] OTHER -> blk

(* jset #0 never jumps and jset #ffffffff always does, says the comment.   *)
PeepJset(blk) ==
    IF blk.s.code # <<"JMP", "JSET", "K">> THEN blk
    ELSE CASE blk.s.k = 0 -> [blk EXCEPT !.succ[TRUE] = blk.succ[FALSE]]
           [] blk.s.k = AllOnes -> [blk EXCEPT !.succ[FALSE] = blk.succ[TRUE]]
           [] OTHER -> blk

(* A branch whose X, and then whose outcome, is a constant.                *)
ConstOperand(blk, x) ==
    IF IsConst(x) /\ blk.s.code[3] = "X"
    THEN [blk EXCEPT !.s = Stmt([@.code EXCEPT ![3] = "K"], ConstVal(x))]
    ELSE blk

ConstOutcome(blk, a) ==
    IF IsConst(a) /\ blk.s.code[3] = "K"
    THEN LET goes == Holds(blk.s.code[2], ConstVal(a), blk.s.k)
         IN  [blk EXCEPT !.succ[~goes] = blk.succ[goes]]
    ELSE blk

(* done is cleared for a constant branch only when it changes something,   *)
(* and for every statement that is rewritten.                              *)
PeepConst(blk, val, changed) ==
    LET b == ConstOutcome(ConstOperand(blk, val[X_ATOM]), val[A_ATOM])
    IN  [blk |-> b, changed |-> changed \/ b.succ # blk.succ]

PeepJump(blk, stmts, val) == PeepConst(PeepJset(blk), val, blk.stmts # stmts)

PeepRest(blk, p, val, out_use) ==
    PeepJump(PeepBranch([blk EXCEPT !.stmts = p.stmts], p.last, val, out_use),
             blk.stmts, val)

opt_peep(blk, val, out_use) ==
    IF blk.stmts = <<>> THEN [blk |-> blk, changed |-> FALSE]
    ELSE PeepRest(blk, PeepPairs(blk.stmts, 1, 1, out_use), val, out_use)

(* opt_deadstores: a definition is dead when it is redefined before it is  *)
(* used, or is the last one and not used after the block.                  *)
opt_deadstores(blk, out_use) ==
    LET n == Len(blk.stmts)
        At(i) == IF i > n THEN blk.s ELSE blk.stmts[i]
        Visit(d, i) ==
            LET used == [a \in Atoms |-> IF a \in atomuse(At(i)) THEN 0 ELSE d.last[a]]
                def  == atomdef(At(i))
            IN  [dead |-> d.dead \cup {used[a] : a \in def},
                 last |-> [a \in Atoms |-> IF a \in def THEN i ELSE used[a]]]
        d == FoldLeft(Visit, [dead |-> {}, last |-> [a \in Atoms |-> 0]],
                      [i \in 1..(n + 1) |-> i])
        dead == (d.dead \cup {d.last[a] : a \in Atoms \ out_use}) \ {0}
    IN  [blk |-> [blk EXCEPT !.stmts = [i \in 1..n |->
                     IF i \in dead THEN Stmt(NOP, blk.stmts[i].k) ELSE blk.stmts[i]]],
         changed |-> dead # {}]

(* The values on entry to a block: those its predecessors agree on.        *)
Entry(vals, in_edges) ==
    [a \in Atoms |->
        IF in_edges # <<>> /\ \A i \in DOMAIN in_edges :
                                 vals[in_edges[i][1]][a] = vals[in_edges[1][1]][a]
        THEN vals[in_edges[1][1]][a] ELSE Unknown]

(* The statements of a block: what they become, and what is known after    *)
(* them.                                                                   *)
KeepStmt(o, r) ==
    [stmts |-> Append(o.stmts, r.s), val |-> r.val,
     changed |-> o.changed \/ r.changed, err |-> o.err \/ r.err]

OptStmts(stmts, entry, do_stmts) ==
    FoldLeft(LAMBDA o, s : KeepStmt(o, opt_stmt(s, o.val, do_stmts)),
             [stmts |-> <<>>, val |-> entry, changed |-> FALSE, err |-> FALSE], stmts)

Useless(blk, entry, val, out_use) ==
    \/ /\ out_use = {}
       /\ entry[A_ATOM] # Unknown /\ val[A_ATOM] = entry[A_ATOM]
       /\ entry[X_ATOM] # Unknown /\ val[X_ATOM] = entry[X_ATOM]
    \/ blk.s.code[1] = "RET"

DropStores(p, o, out_use) ==
    LET d == opt_deadstores(p.blk, out_use)
    IN  [blk |-> d.blk, val |-> o.val, err |-> o.err,
         changed |-> o.changed \/ p.changed \/ d.changed]

OptBranch(blk, entry, o, out_use, do_stmts) ==
    IF do_stmts /\ Useless(blk, entry, o.val, out_use)
    THEN [blk |-> [blk EXCEPT !.stmts = <<>>], val |-> o.val, err |-> o.err,
          changed |-> o.changed \/ o.stmts # <<>>]
    ELSE DropStores(opt_peep([blk EXCEPT !.stmts = o.stmts], o.val, out_use), o, out_use)

opt_blk(blk, entry, out_use, do_stmts) ==
    OptBranch(blk, entry, OptStmts(blk.stmts, entry, do_stmts), out_use, do_stmts)

(* The first loop of opt_blks, from the root down.                         *)
KeepBlock(o, b, r) ==
    [g |-> [o.g EXCEPT ![b] = r.blk], val |-> [o.val EXCEPT ![b] = r.val],
     changed |-> o.changed \/ r.changed, err |-> o.err \/ r.err]

OptBlocks(g, ana, do_stmts) ==
    LET ins == find_inedges(g, ana.levels)
        Visit(o, b) == KeepBlock(o, b, opt_blk(o.g[b], Entry(o.val, ins[b]),
                                               ana.out_use[b], do_stmts))
    IN  FoldLeft(Visit,
                 [g |-> g, changed |-> FALSE, err |-> FALSE,
                  val |-> [b \in DOMAIN g |-> [a \in Atoms |-> Unknown]]],
                 Downward(ana.levels))

-----------------------------------------------------------------------------
(* Edges.                                                                  *)

(* b->oval: what the branch compares A with.                               *)
oval(g, val, b) == IF g[b].s.code[3] = "X" THEN val[b][X_ATOM] ELSE K(g[b].s.k)

use_conflict(b, succ, ana) ==
    \E a \in ana.out_use[succ] : ana.val[b][a] # ana.val[succ][a]

(* fold_edge: where child goes when edge e was taken before; Nil when that *)
(* is not known.                                                           *)
fold_edge(g, ana, child, e) ==
    CASE \/ g[child].s.code # g[e[1]].s.code
         \/ ana.val[child][A_ATOM] # ana.val[e[1]][A_ATOM] -> Nil
      [] /\ g[child].s.code = g[e[1]].s.code
         /\ ana.val[child][A_ATOM] = ana.val[e[1]][A_ATOM]
         /\ oval(g, ana.val, child) = oval(g, ana.val, e[1]) -> g[child].succ[e[2]]
      [] OTHER -> IF e[2] /\ g[child].s.code = <<"JMP", "JEQ", "K">>
                  THEN JF(g, child) ELSE Nil

(* The edges in the order of their numbers: all et, then all ef.           *)
EdgeOrder(g) == [i \in 1..(2 * Len(g)) |-> IF i =< Len(g) THEN <<i, TRUE>>
                                                         ELSE <<i - Len(g), FALSE>>]

(* The loop at "top:": follow the first dominating edge that decides the   *)
(* branch of the successor, as long as there is one.                       *)
RECURSIVE FoldEdges(_, _, _, _)
FoldEdges(g, ana, e, changed) ==
    LET succ == g[e[1]].succ[e[2]]
        Target(d) == fold_edge(g, ana, succ, d)
        Folds(d) == /\ d \in ana.edom[e]
                    /\ Target(d) # Nil
                    /\ ~use_conflict(e[1], Target(d), ana)
        i == SelectInSeq(EdgeOrder(g), Folds)
        g1 == [g EXCEPT ![e[1]].succ[e[2]] = Target(EdgeOrder(g)[i])]
    IN  CASE i = 0 -> [g |-> g, changed |-> changed]
          [] i # 0 /\ IsRet(g, Target(EdgeOrder(g)[i])) -> [g |-> g1, changed |-> TRUE]
          [] OTHER -> FoldEdges(g1, ana, e, TRUE)

(* Mutant of opt_j: done is cleared though nothing changed.                *)
opt_jNeverDone(g, ana, e) ==
    LET succ == g[e[1]].succ[e[2]]
    IN  IF JT(g, succ) = Nil THEN [g |-> g, changed |-> FALSE]
        ELSE FoldEdges(g, ana, e, TRUE)

opt_j(g, ana, e) ==
    LET succ == g[e[1]].succ[e[2]]
        skips == /\ JT(g, succ) = JF(g, succ)
                 /\ ~use_conflict(e[1], JT(g, succ), ana)
    IN  IF JT(g, succ) = Nil THEN [g |-> g, changed |-> FALSE]
        ELSE FoldEdges(IF skips THEN [g EXCEPT ![e[1]].succ[e[2]] = JT(g, succ)] ELSE g,
                       ana, e, skips)

(* The second loop of opt_blks.                                            *)
OptEdges(g, ana) ==
    LET Visit(o, b) ==
            LET t == opt_j(o.g, ana, <<b, TRUE>>)
                f == opt_j(t.g, ana, <<b, FALSE>>)
            IN  [g |-> f.g, changed |-> o.changed \/ t.changed \/ f.changed]
    IN  FoldLeft(Visit, [g |-> g, changed |-> FALSE], Upward(ana.levels))

(* The walks of or_pullup and and_pullup along the chain of blocks that    *)
(* leave it at the same block: from the link ref, to the first link whose  *)
(* block has value v in A, or has not.  Nil when the walk gives up.        *)
RECURSIVE Chain(_, _, _, _, _, _, _)
Chain(g, ana, b, exit, ref, v, same) ==
    LET c == g[ref[1]].succ[ref[2]]
    IN  IF \/ c = Nil
           \/ g[c].succ[exit] # g[b].succ[exit]
           \/ b \notin ana.dom[c]
        THEN <<Nil, FALSE>>
        ELSE IF (ana.val[c][A_ATOM] = v) = same THEN ref
             ELSE Chain(g, ana, b, exit, <<c, ~exit>>, v, same)

(* or_pullup (exit TRUE) and and_pullup (exit FALSE): a test of the value  *)
(* that A already has is moved before the tests of other values.           *)
Pullup(g, ana, ins, b, exit) ==
    LET in == ins[b]
        v  == ana.val[in[1][1]][A_ATOM]
        top == <<in[1][1], JT(g, in[1][1]) = b>>
        diffp == Chain(g, ana, b, exit, top, v, FALSE)
        diff  == g[diffp[1]].succ[diffp[2]]
        samep == Chain(g, ana, b, exit, <<diff, ~exit>>, v, TRUE)
        pull  == g[samep[1]].succ[samep[2]]
        g1 == [g EXCEPT ![samep[1]].succ[samep[2]] = g[pull].succ[~exit]]
        g2 == [g1 EXCEPT ![pull].succ[~exit] = diff]
        Enter(h, e) == [h EXCEPT ![e[1]].succ[JT(h, e[1]) = b] = pull]
        g3 == IF diffp = top THEN FoldLeft(Enter, g2, in)
              ELSE [g2 EXCEPT ![diffp[1]].succ[diffp[2]] = pull]
        gives_up == \/ in = <<>>
                    \/ \E i \in DOMAIN in : ana.val[in[i][1]][A_ATOM] # v
                    \/ diffp[1] = Nil
                    \/ samep[1] = Nil
    IN  IF gives_up THEN [g |-> g, changed |-> FALSE]
                    ELSE [g |-> g3, changed |-> TRUE]

(* The last loop of opt_blks.                                              *)
OptPullups(g, ana) ==
    LET ins == find_inedges(g, ana.levels)
        Visit(o, b) ==
            LET p == Pullup(o.g, ana, ins, b, TRUE)
                q == Pullup(p.g, ana, ins, b, FALSE)
            IN  [g |-> q.g, changed |-> o.changed \/ p.changed \/ q.changed]
    IN  FoldLeft(Visit, [g |-> g, changed |-> FALSE], Upward(ana.levels))

-----------------------------------------------------------------------------
(* After the loops.                                                        *)

WithoutNops(stmts) == SelectSeq(stmts, LAMBDA s : s.code # NOP)

eq_blk(g, b, c) ==
    /\ g[b].s = g[c].s
    /\ g[b].succ = g[c].succ
    /\ WithoutNops(g[b].stmts) = WithoutNops(g[c].stmts)

(* intern_blocks: equal blocks become one, until there are none.           *)
RECURSIVE intern_blocks(_, _)
intern_blocks(g, root) ==
    LET n == Len(g)
        marked == ToSet(Meeting(g, root, <<>>))
        Visit(link, b) ==
            LET c == SelectInSubSeq([i \in 1..n |-> i], b + 1, n,
                                    LAMBDA j : j \in marked /\ eq_blk(g, b, j))
            IN  IF b \notin marked \/ c = 0 THEN link
                ELSE [link EXCEPT ![b] = IF link[c] # Nil THEN link[c] ELSE c]
        link == FoldLeft(Visit, [b \in 1..n |-> Nil], [i \in 1..(n - 1) |-> n - i])
        To(b) == IF b # Nil /\ link[b] # Nil THEN link[b] ELSE b
        h == [b \in 1..n |-> [g[b] EXCEPT !.succ = [e \in BOOLEAN |-> To(g[b].succ[e])]]]
    IN  IF h = g THEN g ELSE intern_blocks(h, root)

(* opt_root: the root is the first block that has a choice to make, with   *)
(* the statements of the old root before its own.                          *)
RECURSIVE FirstChoice(_, _)
FirstChoice(g, b) ==
    IF ~IsRet(g, b) /\ JT(g, b) = JF(g, b) THEN FirstChoice(g, JT(g, b)) ELSE b

opt_root(g, root) ==
    LET b == FirstChoice(g, root)
        cleared == [g EXCEPT ![root].stmts = <<>>]
        stmts == g[root].stmts \o cleared[b].stmts
    IN  [root |-> b,
         g |-> [cleared EXCEPT ![b].stmts = IF IsRet(g, b) THEN <<>> ELSE stmts]]

Insn(c, jt, jf, k) == [code |-> c, jt |-> jt, jf |-> jf, k |-> k]

(* Mutant of LongJump: the distance is counted from the branch.            *)
LongJumpFromBranch(d, n) == Insn(<<"JMP", "JA", "">>, 0, 0, d)

(* The extra jump behind a branch, n instructions after it, to a block     *)
(* that is d instructions after the branch.                                *)
LongJump(d, n) == Insn(<<"JMP", "JA", "">>, 0, 0, d - n)

(* icode_to_fcode and convert_code_r.  Blocks are laid out from the end of *)
(* the program in the order in which the walk leaves them.  A branch too   *)
(* far for jt or jf goes through an extra jump after the branch; finding   *)
(* one that lacks it starts the layout again.                              *)
RECURSIVE icode_to_fcode(_, _, _)
icode_to_fcode(g, root, long) ==
    LET post == Leaving(g, root, FALSE, <<>>)
        code(b) == WithoutNops(g[b].stmts)
        slen(b) == Len(code(b))
        extras(b) == (IF long[b][TRUE] THEN 1 ELSE 0) + (IF long[b][FALSE] THEN 1 ELSE 0)
        \* Instructions from the start of a block to the end of the program.
        Place(tail, b) ==
            [tail EXCEPT ![b] = slen(b) + 1 + extras(b)
                + (LET i == SelectInSeq(post, LAMBDA c : c = b)
                   IN  IF i = 1 THEN 0 ELSE tail[post[i - 1]])]
        tail == FoldLeft(Place, [b \in DOMAIN g |-> 0], post)
        off(b, e) == tail[b] - slen(b) - tail[g[b].succ[e]] - 1
        far(b, e) == off(b, e) >= JumpLimit
        Misses(b) == ~IsRet(g, b) /\ \E e \in BOOLEAN : far(b, e) /\ ~long[b][e]
        miss == SelectInSeq(post, Misses)
        Plain(b) == [i \in 1..slen(b) |-> Insn(code(b)[i].code, 0, 0, code(b)[i].k)]
        Extra(b, e, n) == LongJump(off(b, e), n)
        Branch(b) ==
            IF IsRet(g, b) THEN <<Insn(g[b].s.code, 0, 0, g[b].s.k)>>
            ELSE LET t == far(b, TRUE)
                     f == far(b, FALSE)
                     jt == IF t THEN 0 ELSE off(b, TRUE)
                     jf == IF f THEN (IF t THEN 1 ELSE 0) ELSE off(b, FALSE)
                     jumps == (IF t THEN <<Extra(b, TRUE, 1)>> ELSE <<>>)
                           \o (IF f THEN <<Extra(b, FALSE, IF t THEN 2 ELSE 1)>> ELSE <<>>)
                     unused == [i \in 1..(extras(b) - Len(jumps)) |-> Insn(LDIMM, 0, 0, 0)]
                 IN  <<Insn(g[b].s.code, jt, jf, g[b].s.k)>> \o jumps \o unused
    IN  IF miss = 0
        THEN FlattenSeq([i \in 1..Len(post) |->
                 LET b == post[Len(post) + 1 - i] IN Plain(b) \o Branch(b)])
        ELSE LET b == post[miss]
                 e == far(b, TRUE) /\ ~long[b][TRUE]
             IN  icode_to_fcode(g, root, [long EXCEPT ![b][e] = TRUE])
=============================================================================
