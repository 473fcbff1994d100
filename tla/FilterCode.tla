----------------------------- MODULE FilterCode -----------------------------
(***************************************************************************)
(* What PcapCompile makes of an expression: the blocks that the parser     *)
(* has gencode.c generate, the optimizer, and the program.                 *)
(*                                                                         *)
(* The actions up to FinishParse are the calls that the reductions of      *)
(* grammar.y make, in any order in which an expression can make them, so   *)
(* that every expression within the bounds is compiled.  The actions after *)
(* it are the steps of bpf_optimize and of icode_to_fcode.                 *)
(*                                                                         *)
(* Next to the blocks, each expression on the parser's stack carries what  *)
(* it means: "mean" gives, for every packet, the truth of the expression   *)
(* or the value of the term, taken from the text of the expression and not *)
(* from the code; Stops where a field lies outside of the packet.          *)
(*                                                                         *)
(* The link type is EN10MB scaled down: the link type is the first byte,   *)
(* the IP header follows, with its length, protocol and fragment in its    *)
(* first three bytes.                                                      *)
(***************************************************************************)
EXTENDS BpfOptimizer, FiniteSets

CONSTANTS
    Snaplen,      \* pcap_snapshot of the handle
    Languages,    \* the expressions a program may write, by name: see below
    LostChecks,   \* whether the right operand may be a term with checks of its own
    Optimize      \* the flag of pcap_compile

(* Of a language:                                                          *)
(*   compares    the comparisons of fields: [off, sz, mask, jtype, reverse, v] *)
(*   lengths     the N of "less N" and "greater N"                         *)
(*   immediates, operators, relops  of arithmetic: a relation is a jump and *)
(*               whether it is reversed                                    *)
(*   protos, sizes  the bytes that arithmetic reads, of "ether" or "tcp"   *)
(*   blocks, terms, index  bounds: the blocks of an expression, its terms  *)
(*               and the operations on them, the index of a byte of "tcp"  *)
(*   turns       the turns that LoopEnds allows opt_loop                   *)
(*   lens        the lengths of the packets its filters are run on         *)

VARIABLES
    lang,         \* the language of the program's expressions
    stage,        \* where pcap_compile is
    blocks,       \* the blocks, in the order of their creation
    exprs,        \* the parser's stack of expressions
    arths,        \* the parser's stack of arithmetic terms
    terms,        \* how many terms and operations have been parsed
    regs,         \* regused and curreg
    root,         \* the root block
    doStmts,      \* the argument of opt_loop
    done,         \* the static of optimize.c
    iterations,   \* how often the loop of opt_loop has been run
    ana,          \* what the passes of an iteration found out
    prog,         \* the program
    spec          \* what the expression meant: the packets it is true of, and those
                  \* it can be evaluated on

vars == <<lang, stage, blocks, exprs, arths, terms, regs, root, doStmts, done, iterations, ana,
          prog, spec>>

Language == Languages[lang]

(* The packets a filter may be run on.  The length on the wire is the      *)
(* length captured.                                                        *)
PacketsOf == [l \in DOMAIN Languages |->
                UNION {[1..n -> 0..(2 ^ ByteBits - 1)] : n \in Languages[l].lens}]
Packets == PacketsOf[lang]

Stops == -1

-----------------------------------------------------------------------------
(* Offsets, scaled down.                                                   *)
LinkType == [off |-> 0, sz |-> "B"]
OffLinkpl == 1
EthertypeIp == 1
IpProto == [off |-> OffLinkpl + 1, sz |-> "B"]
ProtoTcp == 1
IpFrag == [off |-> OffLinkpl + 2, sz |-> "B"]
FragMask == 1

FieldOf(p, off, sz) == IF InPacket(p, off, sz) THEN Extract(p, off, sz) ELSE Stops

(* The truth of "and", "or" and "not": the right side is not looked at     *)
(* when the left side decides or stops.                                    *)
Truth(b) == IF b THEN "true" ELSE "false"
AndMean(m, n) == [p \in Packets |-> IF m[p] = "true" THEN n[p] ELSE m[p]]
OrMean(m, n) == [p \in Packets |-> IF m[p] = "false" THEN n[p] ELSE m[p]]
NotMean(m) == [p \in Packets |-> CASE m[p] = "true" -> "false"
                                   [] m[p] = "false" -> "true"
                                   [] OTHER -> "stop"]
RelMean(op, m, n) == [p \in Packets |-> IF m[p] = Stops \/ n[p] = Stops THEN "stop"
                                        ELSE Truth(Holds(op, m[p], n[p]))]
FieldMean(f, Test(_)) == [p \in Packets |->
    LET v == FieldOf(p, f.off, f.sz) IN IF v = Stops THEN "stop" ELSE Truth(Test(v))]

-----------------------------------------------------------------------------
(* Blocks.                                                                 *)

NewBlock(stmts, code, k) ==
    [stmts |-> stmts, s |-> Stmt(code, k), sense |-> FALSE,
     succ |-> [e \in BOOLEAN |-> Nil], head |-> Len(blocks) + 1]

(* The branch of a block that is still to be filled in, through which the  *)
(* block is linked to the next one of its list.                            *)
Open(bs, b) == ~bs[b].sense

RECURSIVE backpatch(_, _, _)
backpatch(bs, list, target) ==
    IF list = Nil THEN bs
    ELSE backpatch([bs EXCEPT ![list].succ[Open(bs, list)] = target],
                   bs[list].succ[Open(bs, list)], target)

RECURSIVE merge(_, _, _)
merge(bs, b0, b1) ==
    LET next == bs[b0].succ[Open(bs, b0)]
    IN  IF next = Nil THEN [bs EXCEPT ![b0].succ[Open(bs, b0)] = b1]
                      ELSE merge(bs, next, b1)

Flip(bs, b) == [bs EXCEPT ![b].sense = ~@]

gen_not(bs, b) == Flip(bs, b)

gen_and(bs, b0, b1) ==
    LET patched == backpatch(bs, b0, bs[b1].head)
        merged == merge(Flip(Flip(patched, b0), b1), b1, b0)
    IN  [Flip(merged, b1) EXCEPT ![b1].head = bs[b0].head]

(* Mutant of gen_or: the sense of the first block is not inverted.         *)
gen_orWithoutSense(bs, b0, b1) ==
    LET patched == backpatch(bs, b0, bs[b1].head)
    IN  [merge(Flip(patched, b0), b1, b0) EXCEPT ![b1].head = bs[b0].head]

gen_or(bs, b0, b1) ==
    LET patched == backpatch(Flip(bs, b0), b0, bs[b1].head)
    IN  [merge(Flip(patched, b0), b1, b0) EXCEPT ![b1].head = bs[b0].head]

-----------------------------------------------------------------------------
(* Primitives.                                                             *)

Parsing == stage = "parse"
OptVars == <<lang, root, doStmts, done, iterations, ana, prog, spec>>

PushBlock(bs, mean) ==
    /\ Len(bs) =< Language.blocks
    /\ blocks' = bs
    /\ exprs' = Append(exprs, [b |-> Len(bs), mean |-> mean])
    /\ UNCHANGED <<stage, arths, terms, regs, OptVars>>

(* gen_ncmp, called by gen_cmp, gen_cmp_gt and its like, and gen_mcmp.     *)
gen_ncmp(c) ==
    LET load == <<Stmt(<<"LD", "ABS", c.sz>>, c.off)>>
        mask == IF c.mask = AllOnes THEN <<>>
                ELSE <<Stmt(<<"ALU", "AND", "K">>, c.mask)>>
        b == NewBlock(load \o mask, <<"JMP", c.jtype, "K">>, c.v)
    IN  IF c.reverse /\ c.jtype \in {"JGT", "JGE"} THEN [b EXCEPT !.sense = TRUE] ELSE b

GenCmp ==
    \E c \in Language.compares :
        /\ Parsing /\ arths = <<>>
        /\ PushBlock(Append(blocks, gen_ncmp(c)),
                     FieldMean(c, LAMBDA v : Holds(c.jtype, (v & c.mask), c.v) # c.reverse))

(* gen_greater and gen_less.                                               *)
gen_len(jmp, n) == NewBlock(<<Stmt(<<"LD", "LEN", "">>, 0)>>, <<"JMP", jmp, "K">>, n)

GenGreater ==
    \E n \in Language.lengths :
        /\ Parsing /\ arths = <<>>
        /\ PushBlock(Append(blocks, gen_len("JGE", n)),
                     [p \in Packets |-> Truth(Len(p) >= n)])

GenLess ==
    \E n \in Language.lengths :
        /\ Parsing /\ arths = <<>>
        /\ PushBlock(Append(blocks, [gen_len("JGT", n) EXCEPT !.sense = TRUE]),
                     [p \in Packets |-> Truth(Len(p) =< n)])

GenNot ==
    /\ Parsing /\ arths = <<>>
    /\ exprs # <<>>
    /\ blocks' = gen_not(blocks, Last(exprs).b)
    /\ exprs' = [exprs EXCEPT ![Len(exprs)].mean = NotMean(@)]
    /\ UNCHANGED <<stage, arths, terms, regs, OptVars>>

Combine(Gen(_, _, _), Mean(_, _)) ==
    LET n == Len(exprs)
    IN  /\ Parsing /\ arths = <<>>
        /\ n >= 2
        /\ blocks' = Gen(blocks, exprs[n - 1].b, exprs[n].b)
        /\ exprs' = Append(SubSeq(exprs, 1, n - 2),
                           [b |-> exprs[n].b,
                            mean |-> Mean(exprs[n - 1].mean, exprs[n].mean)])
        /\ UNCHANGED <<stage, arths, terms, regs, OptVars>>

GenAnd == Combine(gen_and, AndMean)
GenOr == Combine(gen_or, OrMean)

-----------------------------------------------------------------------------
(* Arithmetic.                                                             *)

(* alloc_reg: from curreg on, the first register that is free.  Without    *)
(* one, bpf_error.                                                         *)
HasReg(r) == \E i \in DOMAIN r.used : ~r.used[i]
alloc_reg(r) ==
    LET Free(i) == ~r.used[(r.cur + i) % MemWords]
        i == CHOOSE j \in 0..(MemWords - 1) : Free(j) /\ \A h \in 0..(j - 1) : ~Free(h)
        n == (r.cur + i) % MemWords
    IN  [used |-> [r.used EXCEPT ![n] = TRUE], cur |-> n]
free_reg(r, n) == [r EXCEPT !.used[n] = FALSE]

bpf_error ==
    /\ stage' = "error"
    /\ UNCHANGED <<blocks, exprs, arths, terms, regs, OptVars>>

StoreInto(first, mean, reg) ==
    /\ Parsing
    /\ terms < Language.terms
    /\ \/ ~HasReg(regs) /\ bpf_error
       \/ /\ HasReg(regs)
          /\ terms' = terms + 1
          /\ regs' = alloc_reg(regs)
          /\ arths' = Append(arths, [s |-> <<first, Stmt(ST, reg)>>, b |-> Nil,
                                     regno |-> regs'.cur, mean |-> mean, guard |-> <<>>])
          /\ UNCHANGED <<stage, blocks, exprs, OptVars>>

(* Mutant of PushArth: the register in use before alloc_reg is stored to.  *)
PushArthBefore(first, mean) == StoreInto(first, mean, regs.cur)

(* gen_loadi and gen_loadlen.                                              *)
PushArth(first, mean) == StoreInto(first, mean, alloc_reg(regs).cur)

GenLoadi == \E v \in Language.immediates : PushArth(Stmt(LDIMM, v), [p \in Packets |-> v])
GenLoadlen == PushArth(Stmt(<<"LD", "LEN", "">>, 0), [p \in Packets |-> Len(p)])

(* gen_load of a link-layer byte.                                          *)
LinkLoad(inst, sz) ==
    <<Stmt(LDXMEM, inst.regno), Stmt(<<"LD", "IND", sz>>, 0)>>

(* gen_load of a byte of a transport header.                               *)
TransportLoad(inst, sz) ==
    <<Stmt(MSH, OffLinkpl), Stmt(LDMEM, inst.regno), Stmt(<<"ALU", "ADD", "X">>, 0),
      Stmt(TAX, 0), Stmt(<<"LD", "IND", sz>>, OffLinkpl)>>

TransportMean(inst, sz) ==
    [p \in Packets |->
        IF inst.mean[p] = Stops \/ ~InPacket(p, OffLinkpl, "B") THEN Stops
        ELSE LET hlen == 4 * Extract(p, OffLinkpl, "B")
             IN  FieldOf(p, OffLinkpl + ((hlen + inst.mean[p]) % WordSize), sz)]

Load(f) == <<Stmt(<<"LD", "ABS", f.sz>>, f.off)>>

(* gen_ipfrag, before its gen_not.                                         *)
gen_ipfrag == NewBlock(Load(IpFrag), <<"JMP", "JSET", "K">>, FragMask)

(* The checks that go with it: gen_proto_abbrev of IP and of TCP, and      *)
(* gen_ipfrag, combined by gen_and.                                        *)
TransportChecks(inst) ==
    LET n == Len(blocks)
        tcp == NewBlock(Load(IpProto), <<"JMP", "JEQ", "K">>, ProtoTcp)
        frag == [gen_ipfrag EXCEPT !.sense = TRUE, !.head = n + 2]
        ip == [NewBlock(Load(LinkType), <<"JMP", "JEQ", "K">>, EthertypeIp)
                    EXCEPT !.head = n + 3]
        b1 == gen_and(blocks \o <<tcp, frag, ip>>, n + 1, n + 2)
        b2 == IF inst.b = Nil THEN b1 ELSE gen_and(b1, inst.b, n + 2)
    IN  gen_and(b2, n + 3, n + 2)

ChecksMean(inst) ==
    LET ip == FieldMean(LinkType, LAMBDA v : v = EthertypeIp)
        tcp == FieldMean(IpProto, LAMBDA v : v = ProtoTcp)
        frag == FieldMean(IpFrag, LAMBDA v : (v & FragMask) = 0)
    IN  <<ip>> \o inst.guard \o <<tcp, frag>>

GenLoad ==
    \E proto \in Language.protos, sz \in Language.sizes :
        LET inst == Last(arths)
            r == free_reg(alloc_reg(regs), inst.regno)
            reg == alloc_reg(regs).cur
            code == IF proto = "tcp" THEN TransportLoad(inst, sz) ELSE LinkLoad(inst, sz)
        IN  /\ Parsing
            /\ arths # <<>>
            /\ terms < Language.terms
            /\ \/ ~HasReg(regs) /\ bpf_error
               \/ /\ HasReg(regs)
                  /\ terms' = terms + 1
                  /\ regs' = r
                  /\ \/ /\ proto = "tcp"
                        /\ Len(blocks) + 3 =< Language.blocks
                        /\ \A p \in Packets : inst.mean[p] =< Language.index
                        /\ blocks' = TransportChecks(inst)
                     \/ proto = "ether" /\ blocks' = blocks
                  /\ arths' = [arths EXCEPT ![Len(arths)] =
                        [s |-> inst.s \o code \o <<Stmt(ST, reg)>>, regno |-> reg,
                         b |-> IF proto = "tcp" THEN Len(blocks) + 2 ELSE inst.b,
                         mean |-> IF proto = "tcp" THEN TransportMean(inst, sz)
                                  ELSE [p \in Packets |->
                                          IF inst.mean[p] = Stops THEN Stops
                                          ELSE FieldOf(p, inst.mean[p], sz)],
                         guard |-> IF proto = "tcp" THEN ChecksMean(inst) ELSE inst.guard]]
                  /\ UNCHANGED <<stage, exprs, OptVars>>

GenNeg ==
    LET a == Last(arths)
    IN  /\ Parsing
        /\ arths # <<>>
        /\ "NEG" \in Language.operators
        /\ terms < Language.terms
        /\ terms' = terms + 1
        /\ arths' = [arths EXCEPT ![Len(arths)] = [a EXCEPT
              !.s = @ \o <<Stmt(LDMEM, a.regno), Stmt(<<"ALU", "NEG", "">>, 0),
                           Stmt(ST, a.regno)>>,
              !.mean = [p \in Packets |-> IF @[p] = Stops THEN Stops
                                          ELSE (-@[p]) % WordSize]]]
        /\ UNCHANGED <<stage, blocks, exprs, regs, OptVars>>

ArithMean(op, m, n) ==
    [p \in Packets |-> IF \/ m[p] = Stops \/ n[p] = Stops
                          \/ op \in {"DIV", "MOD"} /\ n[p] = 0
                       THEN Stops ELSE ALU(op, m[p], n[p])]

(* The block of the result is that of the first term: the checks of the    *)
(* second term are lost.                                                   *)
GenArth ==
    \E op \in Language.operators \ {"NEG"} :
        LET n == Len(arths)
            a0 == arths[n - 1]
            a1 == arths[n]
            freed == free_reg(free_reg(regs, a0.regno), a1.regno)
            r == alloc_reg(freed)
            code == <<Stmt(LDXMEM, a1.regno), Stmt(LDMEM, a0.regno),
                      Stmt(<<"ALU", op, "X">>, 0), Stmt(ST, r.cur)>>
        IN  /\ Parsing
            /\ n >= 2
            /\ a1.b = Nil \/ LostChecks
            /\ terms < Language.terms
            /\ terms' = terms + 1
            /\ regs' = r
            /\ arths' = Append(SubSeq(arths, 1, n - 2),
                  [s |-> a0.s \o a1.s \o code, regno |-> r.cur, b |-> a0.b,
                   mean |-> ArithMean(op, a0.mean, a1.mean),
                   guard |-> a0.guard \o a1.guard])
            /\ UNCHANGED <<stage, blocks, exprs, OptVars>>

GenRelation ==
    \E relop \in Language.relops :
        LET op == relop[1]
            reversed == relop[2]
            a0 == arths[1]
            a1 == arths[2]
            code == <<Stmt(LDXMEM, a1.regno), Stmt(LDMEM, a0.regno)>>
            rel == IF op = "JEQ"
                   THEN NewBlock(a0.s \o a1.s \o Append(code, Stmt(<<"ALU", "SUB", "X">>, 0)),
                                 <<"JMP", "JEQ", "K">>, 0)
                   ELSE NewBlock(a0.s \o a1.s \o code, <<"JMP", op, "X">>, 0)
            n == Len(blocks) + 1
            bs == Append(blocks, [rel EXCEPT !.sense = reversed])
            pair == a0.b # Nil /\ a1.b # Nil
            b1 == IF pair THEN gen_and(bs, a0.b, a1.b) ELSE bs
            guard == IF a1.b # Nil THEN a1.b ELSE a0.b
            m0 == RelMean(op, a0.mean, a1.mean)
            m1 == IF reversed THEN NotMean(m0) ELSE m0
            mean == FoldRight(AndMean, a0.guard \o a1.guard, m1)
        IN  /\ Parsing
            /\ Len(arths) = 2
            /\ n =< Language.blocks
            /\ blocks' = IF guard = Nil THEN b1 ELSE gen_and(b1, guard, n)
            /\ exprs' = Append(exprs, [b |-> n, mean |-> mean])
            /\ arths' = <<>>
            /\ regs' = free_reg(free_reg(regs, a0.regno), a1.regno)
            /\ UNCHANGED <<stage, terms, OptVars>>

-----------------------------------------------------------------------------
(* What a graph answers for a packet.                                      *)

ExecBlock(blk, m, p) ==
    LET Visit(n, s) == IF n.st = "run" THEN Execute(n, s, p) ELSE n
    IN  FoldLeft(Visit, m, blk.stmts)

RECURSIVE RunGraph(_, _, _, _)
RunGraph(g, b, m, p) ==
    LET n == ExecBlock(g[b], m, p)
    IN  CASE n.st = "stop" -> 0
          [] n.st = "undef" -> Undef
          [] n.st = "run" -> IF IsRet(g, b) THEN g[b].s.k
                             ELSE RunGraph(g, g[b].succ[JumpsTo(n, g[b].s)], n, p)

NoLong(g) == [b \in DOMAIN g |-> [e \in BOOLEAN |-> FALSE]]

-----------------------------------------------------------------------------
(* The end of the parse.                                                   *)

ParseVars == <<lang, exprs, arths, terms, regs>>

(* finish_parse: the open branches lead to the two returns.                *)
FinishParse ==
    LET p == exprs[1].b
        n == Len(blocks)
        Ret(v, at) == [NewBlock(<<>>, RETK, v) EXCEPT !.head = at]
        b1 == backpatch(Append(blocks, Ret(Snaplen, n + 1)), p, n + 1)
        b2 == backpatch(Append(Flip(b1, p), Ret(0, n + 2)), p, n + 2)
        r  == blocks[p].head
    IN  /\ Parsing
        /\ Len(exprs) = 1 /\ arths = <<>>
        /\ stage' = IF Optimize THEN "init" ELSE "code"
        /\ blocks' = b2
        /\ root' = r
        /\ spec' = [accepts |-> {q \in Packets : exprs[1].mean[q] = "true"},
                    covered |-> {q \in Packets : \A b \in 1..n :
                                    ExecBlock(b2[b], Start, q).st = "run"}]
        /\ exprs' = <<>> /\ terms' = 0
        /\ UNCHANGED <<lang, arths, regs, doStmts, done, iterations, ana, prog>>

(* An empty expression: root is still NULL.                                *)
EmptyExpression ==
    /\ Parsing
    /\ blocks = <<>> /\ arths = <<>>
    /\ stage' = IF Optimize THEN "init" ELSE "code"
    /\ blocks' = <<NewBlock(<<>>, RETK, Snaplen)>>
    /\ root' = 1
    /\ spec' = [accepts |-> Packets, covered |-> Packets]
    /\ UNCHANGED <<ParseVars, doStmts, done, iterations, ana, prog>>

(* The text ends, or goes on with something that is no expression.         *)
Syntax == Parsing /\ bpf_error

-----------------------------------------------------------------------------
(* bpf_optimize.                                                           *)

OptInit ==
    /\ stage = "init"
    /\ stage' = "analyse"
    /\ blocks' = opt_init(blocks, root)
    /\ root' = 1
    /\ doStmts' = FALSE
    /\ UNCHANGED <<ParseVars, done, iterations, ana, prog, spec>>

(* An iteration of opt_loop up to the blocks: find_levels, find_dom,       *)
(* find_ud, find_edom and the first loop of opt_blks.                      *)
Analysed(levels) ==
    [levels |-> levels, out_use |-> find_ud(blocks, levels),
     dom |-> find_dom(blocks, root, levels), edom |-> find_edom(blocks, root, levels)]

AfterBlocks(a, o) ==
    IF o.err THEN /\ stage' = "error"
                  /\ UNCHANGED <<blocks, done, ana>>
    ELSE /\ stage' = IF doStmts THEN "next" ELSE "edges"
         /\ blocks' = o.g
         /\ done' = ~o.changed
         /\ ana' = [levels |-> a.levels, out_use |-> a.out_use, dom |-> a.dom,
                    edom |-> a.edom, val |-> o.val]

OptBlks ==
    LET a == Analysed(find_levels(blocks, root))
    IN  /\ stage = "analyse"
        /\ iterations' = iterations + 1
        /\ AfterBlocks(a, OptBlocks(blocks, a, doStmts))
        /\ UNCHANGED <<ParseVars, root, doStmts, prog, spec>>

(* done is cleared by a pass that changed something.                       *)
AfterEdges(to, o) ==
    /\ stage' = to
    /\ blocks' = o.g
    /\ done' = (done /\ ~o.changed)
    /\ UNCHANGED <<ParseVars, root, doStmts, iterations, ana, prog, spec>>

OptJumps == stage = "edges" /\ AfterEdges("pullup", OptEdges(blocks, ana))

OptPull == stage = "pullup" /\ AfterEdges("next", OptPullups(blocks, ana))

(* The end of an iteration: another one, the second opt_loop, or on.       *)
NextIteration ==
    /\ stage = "next"
    /\ stage' = IF done /\ doStmts THEN "intern" ELSE "analyse"
    /\ doStmts' = (doStmts \/ done)
    /\ ana' = <<>>
    /\ UNCHANGED <<ParseVars, blocks, root, done, iterations, prog, spec>>

(* intern_blocks and opt_root, and what pcap_compile does of a root that   *)
(* rejects.                                                                *)
OptRoot ==
    LET o == opt_root(intern_blocks(blocks, root), root)
        rejects == o.g[o.root].s = Stmt(RETK, 0)
    IN  /\ stage = "intern"
        /\ stage' = IF rejects THEN "rejects" ELSE "code"
        /\ blocks' = o.g
        /\ root' = o.root
        /\ UNCHANGED <<ParseVars, doStmts, done, iterations, ana, prog, spec>>

ToCode ==
    /\ stage = "code"
    /\ stage' = "done"
    /\ prog' = icode_to_fcode(blocks, root, NoLong(blocks))
    /\ blocks' = <<>>
    /\ UNCHANGED <<ParseVars, root, doStmts, done, iterations, ana, spec>>

-----------------------------------------------------------------------------
Init ==
    /\ lang \in DOMAIN Languages
    /\ stage = "parse"
    /\ blocks = <<>> /\ exprs = <<>> /\ arths = <<>> /\ terms = 0
    /\ regs = [used |-> [i \in 0..(MemWords - 1) |-> FALSE], cur |-> 0]
    /\ root = Nil /\ doStmts = FALSE /\ done = FALSE /\ iterations = 0 /\ ana = <<>> /\ prog = <<>>
    /\ spec = [accepts |-> {}, covered |-> {}]

Parse == \/ GenCmp \/ GenGreater \/ GenLess \/ GenNot \/ GenAnd \/ GenOr
         \/ GenLoadi \/ GenLoadlen \/ GenLoad \/ GenNeg \/ GenArth \/ GenRelation
         \/ FinishParse \/ EmptyExpression \/ Syntax

Generate == OptInit \/ OptBlks \/ OptJumps \/ OptPull \/ NextIteration \/ OptRoot \/ ToCode

Next == Parse \/ Generate

Spec == Init /\ [][Next]_vars

-----------------------------------------------------------------------------
Verdict(p) == IF stage = "done" THEN bpf_filter(prog, p)
              ELSE RunGraph(blocks, root, Start, p)
Generating == stage \notin {"parse", "error"}

(* After the parse, each iteration of opt_loop, and each later step.       *)
Settled == stage \in {"init", "next", "code", "done", "rejects"}

(* The shape of the graph: branches have two successors, returns none, and *)
(* every block that can be reached exists.                                 *)
TypeOK ==
    /\ stage \in {"parse", "init", "analyse", "edges", "pullup", "next", "intern",
                  "code", "done", "rejects", "error"}
    /\ doStmts \in BOOLEAN /\ done \in BOOLEAN
    /\ \A b \in DOMAIN blocks : \A e \in BOOLEAN :
          blocks[b].succ[e] \in 0..Len(blocks)
    /\ Generating /\ stage # "done" =>
          \A b \in DOMAIN blocks : \A e \in BOOLEAN :
              IsRet(blocks, b) <=> blocks[b].succ[e] = Nil

(* Every pass of the compiler, the optimizer and the layout keeps the      *)
(* meaning of the expression: a packet that has all the fields which the   *)
(* expression names is accepted exactly when the expression is true        *)
(* (gencode.c, optimize.c, bpf_filter).  On a shorter packet the optimizer *)
(* may move a test before the load that would have stopped the filter, but *)
(* it never loses a packet by that: what the plain code accepts is         *)
(* accepted still (opt_j, or_pullup, and_pullup, opt_deadstores).          *)
MeaningKept ==
    Settled => \A p \in Packets :
        /\ p \in spec.accepts => Verdict(p) # 0
        /\ p \in spec.covered \ spec.accepts => Verdict(p) = 0

(* No packet makes the code read a cell of mem[] that was not stored: the  *)
(* scratch registers that expressions share are stored before every read,  *)
(* and no store that is read is taken for dead (alloc_reg, free_reg,       *)
(* opt_deadstores).                                                        *)
NothingUndefined == Settled => \A p \in Packets : Verdict(p) # Undef

(* The program is one that bpf_validate accepts, as the kernel and         *)
(* install_bpf_program ask for, long jumps included.                       *)
ProgramValid == stage = "done" => bpf_validate(prog)

(* The loop "while (!done)" of opt_loop comes to an end: nothing in the    *)
(* code bounds it, and a pass that undoes what another one did would keep  *)
(* it going.  Every expression needs at most Language.turns of it.         *)
LoopEnds == iterations =< Language.turns
=============================================================================
