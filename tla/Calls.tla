-------------------------------- MODULE Calls ---------------------------------
(***************************************************************************)
(* What a call with positional and keyword arguments means: which lists of *)
(* parameters there are, which arguments fit them, and what each parameter *)
(* is then bound to.  "ps" is the list of parameters as it is written, the *)
(* arguments are the positional values, in order, and the keywords, which  *)
(* are pairs of a name and a value.                                        *)
(***************************************************************************)
EXTENDS Naturals, Sequences

Kinds(ps, kinds) == {k \in DOMAIN ps : ps[k][1] \in kinds}
Named == {"plain", "default", "args", "kws"}
Before(ps, k, kinds) == \E j \in 1 .. k - 1 : ps[j][1] \in kinds

LegalParameters(ps) ==
  /\ \A j, k \in Kinds(ps, Named) : ps[j][2] = ps[k][2] => j = k
  /\ \A j, k \in Kinds(ps, {"bare", "args"}) : j = k
  /\ \A j, k \in Kinds(ps, {"slash"}) : j = k
  /\ \A k \in Kinds(ps, {"slash"}) : Before(ps, k, {"plain", "default"}) /\ ~Before(ps, k, {"bare", "args"})
  /\ \A k \in Kinds(ps, {"kws"}) : \A j \in DOMAIN ps : j <= k
  /\ \A k \in Kinds(ps, {"bare"}) : k < Len(ps)
  /\ \A k \in Kinds(ps, {"plain"}) : Before(ps, k, {"default"}) => Before(ps, k, {"bare", "args"})

\* The parameters that positional arguments are for, by where they are in
\* the list, and those that keywords are for.
Positional(ps) == {k \in Kinds(ps, {"plain", "default"}) : ~Before(ps, k, {"bare", "args"})}
ByName(ps) == {k \in Kinds(ps, {"plain", "default"}) : \A s \in Kinds(ps, {"slash"}) : k > s}
Rank(ps, k) == Len(SelectSeq(SubSeq(ps, 1, k), LAMBDA p : p[1] \in {"plain", "default"}))
Places(ps) == Len(SelectSeq([k \in DOMAIN ps |-> k], LAMBDA k : k \in Positional(ps)))

Filled(ps, values, k) == k \in Positional(ps) /\ Rank(ps, k) <= Len(values)
Given(ps, keywords, k) == {n \in DOMAIN keywords : k \in ByName(ps) /\ keywords[n][1] = ps[k][2]}
Matched(ps, keywords, n) == \E k \in ByName(ps) : ps[k][2] = keywords[n][1]

Fits(ps, values, keywords) ==
  /\ Len(values) > Places(ps) => Kinds(ps, {"args"}) # {}
  /\ \A m, n \in DOMAIN keywords : keywords[m][1] = keywords[n][1] => m = n
  /\ \A n \in DOMAIN keywords : Matched(ps, keywords, n) \/ Kinds(ps, {"kws"}) # {}
  /\ \A k \in Kinds(ps, {"plain", "default"}) : Filled(ps, values, k) => Given(ps, keywords, k) = {}
  /\ \A k \in Kinds(ps, {"plain"}) : Filled(ps, values, k) \/ Given(ps, keywords, k) # {}

\* What the parameter at k is bound to by arguments that fit.
Bound(ps, values, keywords, k) ==
  CASE ps[k][1] = "args" -> <<"list", SubSeq(values, Places(ps) + 1, Len(values))>>
    [] ps[k][1] = "kws" -> <<"dict", SelectSeq(keywords, LAMBDA e : \A j \in ByName(ps) : ps[j][2] # e[1])>>
    [] Filled(ps, values, k) -> <<values[Rank(ps, k)]>>
    [] Given(ps, keywords, k) # {} -> <<keywords[CHOOSE n \in Given(ps, keywords, k) : TRUE][2]>>
    [] OTHER -> <<"default", ps[k][2]>>

\* All the named parameters, in order.
Bindings(ps, values, keywords) ==
  LET named == SelectSeq([k \in DOMAIN ps |-> k], LAMBDA k : ps[k][1] \in Named)
  IN [i \in DOMAIN named |-> Bound(ps, values, keywords, named[i])]

(***************************************************************************)
(* What arguments that are written mean: <<"value", v>>, <<"key", x, v>>,  *)
(* <<"star", values, fails>>, <<"dict", entries>>.                         *)
(***************************************************************************)
Values(as) == LET all[n \in 0 .. Len(as)] ==
                    IF n = 0 THEN <<>>
                    ELSE all[n - 1] \o (CASE as[n][1] \in {"value", "name"} -> <<as[n][2]>>
                                          [] as[n][1] = "star" -> as[n][2]
                                          [] OTHER -> <<>>)
              IN all[Len(as)]
Keywords(as) == LET all[n \in 0 .. Len(as)] ==
                      IF n = 0 THEN <<>>
                      ELSE all[n - 1] \o (CASE as[n][1] = "key" -> <<<<as[n][2], as[n][3]>>>>
                                            [] as[n][1] = "dict" -> as[n][2]
                                            [] OTHER -> <<>>)
                IN all[Len(as)]
===============================================================================
