---------------------------- MODULE MCFilterCode ----------------------------
(* Instances of FilterCode: bytes of one bit, words of four.               *)
EXTENDS FilterCode

Cmp(off, sz, mask, jtype, reverse, v) ==
    [off |-> off, sz |-> sz, mask |-> mask, jtype |-> jtype, reverse |-> reverse, v |-> v]

(* Comparisons of two fields that share values, so that one decides the    *)
(* other, and of one with a mask.                                          *)
MCCompares == {Cmp(0, "H", AllOnes, "JEQ", FALSE, 1), Cmp(0, "H", AllOnes, "JEQ", FALSE, 2),
               Cmp(1, "B", AllOnes, "JEQ", FALSE, 1), Cmp(0, "H", 1, "JEQ", FALSE, 1)}

(* Nets of which the first byte counts, as in "src net 0.0.0.0 mask        *)
(* 255.0.0.0".                                                             *)
NetCompares == {Cmp(0, "H", 2, "JEQ", FALSE, 0)}

(* "=", and "<", which is ">=" reversed.                                   *)
MCRelops == {<<"JEQ", FALSE>>, <<"JGE", TRUE>>}

(* Tests of fields and lengths joined in every way.                        *)
Logic == [compares |-> MCCompares, lengths |-> {2}, immediates |-> {}, operators |-> {},
          relops |-> {}, protos |-> {}, sizes |-> {}, blocks |-> 3, terms |-> 0, index |-> 0,
          lens |-> {0, 1, 2, 3}, turns |-> 7]
(* One relation between arithmetic terms.                                  *)
Arith == [compares |-> {}, lengths |-> {}, immediates |-> {0, 1}, operators |-> {"ADD", "AND", "NEG"},
          relops |-> MCRelops, protos |-> {"ether", "tcp"}, sizes |-> {"B"}, blocks |-> 4, terms |-> 4,
          index |-> 1, lens |-> {1, 6}, turns |-> 9]
Nets == [Logic EXCEPT !.compares = NetCompares, !.lengths = {}]

MCLanguages == [logic |-> Logic, arith |-> Arith]
NetLanguages == [nets |-> Nets]
=============================================================================
