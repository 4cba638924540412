------------------------------ MODULE MCCodec ------------------------------
(***************************************************************************)
(* Nodes of every class, with every text in turn, and variables with every *)
(* datum in turn, alone and in arrays, under their own data type, the base *)
(* type and none.                                                          *)
(***************************************************************************)
EXTENDS Codec, TLC

CONSTANTS s1, s2, s3

Servers == {s1, s2, s3}

\* Floating-point numbers in quarters, as IEEE 754 has them: with one bit after the
\* first for a double and none for a float.  The bits of 1 are read as 4, those of 4
\* as 8, and those of 8 as 10, for which 8 is as near as any.
Signed(S) == S \cup {-x : x \in S}
SmallDoubles == Signed({0, 1} \cup {m * 2^e : m \in {2, 3}, e \in 0..7})
SmallFloats  == Signed({0} \cup {2 * 2^e : e \in 0..7})

Plainly(c) ==
  [class |-> c, browseName |-> "plain", displayName |-> "plain", description |-> "blank",
   inverseName |-> "blank", flag |-> [f \in Flag |-> IF f \in FlagsOf[c] THEN 1 ELSE 0],
   value |-> NoValue, dataType |-> "null", valueRank |-> 0, dims |-> <<>>, dimsSize |-> 0]

Texts == {[Plainly(c) EXCEPT !.displayName = t, !.description = u] :
            c \in Class, t \in {"plain", "withNul", "binary"}, u \in {"blank", "binary"}}
         \cup {[Plainly("ReferenceType") EXCEPT !.inverseName = t] : t \in Text}

\* Few enough data of each type to tell apart what becomes of them: the ends of
\* the integers, 0, 0.5, 1.5 and -1.
Sample == [Boolean |-> {0, 1}, Int32 |-> {-Half, 1}, Int64 |-> {-Half, Half - 1},
           UInt64 |-> {1, 2 * Half - 1}, Float |-> {0, One \div 2, -One},
           Double |-> {0, One \div 2, One + One \div 2, -One},
           String |-> {"blank", "withNul", "binary"}, QualifiedName |-> {"plain", "binary"},
           Guid |-> {1}, ExtensionObject |-> {"nobody", "typed", "body"},
           DataValue |-> {"plain", "stamped"}, Structure |-> {"structure"}]

Variables(c, v, ranks, dims) ==
  {[Plainly(c) EXCEPT !.value = v, !.dataType = d, !.valueRank = r, !.dims = ds, !.dimsSize = Len(ds)] :
     d \in {"null", "base", v.type}, r \in ranks, ds \in dims}

\* Arrays that have no type in JSON, of which a few are enough.
UntypedArrays == Variables("Variable", Array("Int32", <<>>, <<>>), {1}, {<<>>})
                 \cup Variables("Variable", Array("Structure", <<>>, <<"structure">>), {1}, {<<>>})

ScalarsOf(t) == UNION {Variables("Variable", Scalar(t, x), {-1, 0, 1}, {<<>>}) : x \in Sample[t]}
ArraysOf(t)  == UNION {Variables("Variable", Array(t, <<>>, d), {0, 1}, {<<>>, <<Len(d)>>}) :
                         d \in {<<Zero(t)>>} \cup [1..2 -> Sample[t]]}
MatricesOf(t) == UNION {Variables("VariableType", Array(t, <<2, 1>>, d), {0, 2}, {<<>>, <<2, 1>>}) :
                         d \in [1..2 -> Sample[t]]}

AllRequests == Texts \cup UntypedArrays \cup UNION {ScalarsOf(t) : t \in Type}
               \cup UNION {ArraysOf(t) \cup MatricesOf(t) : t \in Type \ {"Structure"}}
               \cup {[Plainly("Variable") EXCEPT !.dataType = "Int32", !.valueRank = r] : r \in {-1, 1}}

Symmetry == Permutations({s2, s3})
=============================================================================
