------------------------------- MODULE MCLong -------------------------------
(***************************************************************************)
(* Model checking KrkLong: the instance, and the refinement.               *)
(***************************************************************************)
EXTENDS KrkLong

\* Digits of 3 bits, so that 8, 64 and 512 are where a digit is added; ints
\* of 6 bits, so that an int has up to two digits, as in the code.
Signed(S) == S \cup {-n : n \in S}
Ends == {0, 1, 2, 3, 7, 8, 9, 31, 32, 63, 64, 65, 100, 511, 512}

MCOperands == {[other |-> n, long |-> b] : n \in Signed(Ends), b \in BOOLEAN}
                \ {[other |-> n, long |-> FALSE] : n \in {m \in Signed(Ends) : ~InInt(m)}}
MCShifts == {[other |-> n, long |-> b] : n \in {-1, 0, 1, 2, 3, 4, 7, 9, 16}, b \in BOOLEAN}
MCExponents == {[other |-> n, long |-> b] : n \in {0, 1, 2, 3, 9}, b \in BOOLEAN}

Texts(base) ==
  {<<>>, <<0>>, <<base>>, <<1, base>>, <<0, 0, 1>>, <<1, 1, 1, 1>>, <<1, 0, 1, 0, 1>>,
   <<base - 1, 0, base - 1>>, <<base - 1, base - 1>>}
MCLiterals == UNION {{[minus |-> b, base |-> base, digits |-> t] : b \in BOOLEAN, t \in Texts(base)} :
                     base \in {2, 3, 8, 10, 16}}

-----------------------------------------------------------------------------
\* The digits stand for the number they are the digits of.
Abstract == INSTANCE Arithmetic WITH number <- Value(acc), HashBits <- WordBits

\* Every operation, on ints, longs or both, with carries, borrows and signs,
\* is that of the integers, and replies what they would.
ImplementsArithmetic == Abstract!Spec
=============================================================================
