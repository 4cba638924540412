------------------------------- MODULE Codec -------------------------------
(***************************************************************************)
(* A node on its way through ZooKeeper: its attributes become JSON         *)
(* (src/zk_jsonEncode.c), another server reads them back                   *)
(* (src/zk_jsonDecode.c) and adds the node to its own store, which checks  *)
(* them again (UA_Server_add...Node of open62541).  A server can push the  *)
(* copy it made, so what one passage does to an attribute is done again:   *)
(* most are spoilt once, if at all, and a real at every passage.           *)
(*                                                                         *)
(* One node, of a namespace above 0, and the servers that hold it.  When   *)
(* and in which order servers push and copy is Replication's subject; here *)
(* any server that has not seen the last pack may copy it.                 *)
(***************************************************************************)
EXTENDS Integers, Sequences, FiniteSets

CONSTANTS
  Server,
  Home,         \* the server that the node is added to first
  Requests,     \* the attributes it may be added with
  Half,         \* integers of 64 bits are -Half .. Half-1, unsigned ones 0 .. 2*Half-1
  One,          \* the number 1 in the units in which reals are counted
  Floats,       \* the floats, each in these units, and
  Doubles,      \* the doubles, without infinities, NaN and the negative zero
  Garbage,      \* what an uninitialised byte may hold
  MaxVersion    \* bound: pushes of the node

Class == {"Object", "Variable", "VariableType", "ReferenceType",
          "ObjectType", "DataType", "View", "Method"}
Absent == [class |-> "none"]  \* no node, no pack
HasValue(c) == c \in {"Variable", "VariableType"}

\* Texts that differ to the code: plain UTF-8, with a NUL in it, not UTF-8, and
\* what snprintf makes of a null pointer.
Text == {"blank", "plain", "withNul", "binary", "(null)"}

BooleanFlag == {"historizing", "isAbstract", "symmetric", "executable"}
IntegerFlag == {"writeMask", "eventNotifier", "containsNoLoops",
                "accessLevel", "userAccessLevel"}
Flag        == BooleanFlag \cup IntegerFlag \cup {"minimumSamplingInterval"}

FlagsOf ==
  [Object        |-> {"eventNotifier"},
   Variable      |-> {"accessLevel", "userAccessLevel", "minimumSamplingInterval", "historizing"},
   VariableType  |-> {"isAbstract"},
   ReferenceType |-> {"isAbstract", "symmetric"},
   ObjectType    |-> {"isAbstract"},
   DataType      |-> {"isAbstract"},
   View          |-> {"containsNoLoops", "eventNotifier"},
   Method        |-> {"executable"}]

\* Int32 stands for the integers of up to 32 bits and StatusCode, Int64 for
\* DateTime too, String for ByteString and XmlElement, Structure for every type
\* that a variant is not prepared for.
Type == {"Boolean", "Int32", "Int64", "UInt64", "Float", "Double", "String",
         "QualifiedName", "Guid", "ExtensionObject", "DataValue", "Structure"}

\* An extension object has an encoded body, or none and a type id or none either, or
\* is what the decoder leaves of one.  One that is already decoded is left out: the
\* decoder writes a pointer to its type over the type id of an encoded one.
Datum == [Boolean |-> {0, 1}, Int32 |-> (-Half)..(Half - 1), Int64 |-> (-Half)..(Half - 1),
          UInt64 |-> 0..(2 * Half - 1), Float |-> Floats, Double |-> Doubles,
          String |-> Text, QualifiedName |-> Text, Guid |-> {0, 1},
          ExtensionObject |-> {"nobody", "typed", "body", "hollow"},
          DataValue |-> {"plain", "stamped", "zeroed"}, Structure |-> {"structure"}]

\* What UA_Array_new and UA_init leave.
Zero(t) == CASE t \in {"String", "QualifiedName"} -> "blank"
             [] t = "ExtensionObject" -> "nobody"
             [] t = "DataValue"       -> "plain"
             [] t = "Structure"       -> "structure"
             [] OTHER                 -> 0

\* A UA_Variant: nothing, one datum, or an array with its dimensions.
NoValue         == [type |-> "none", array |-> FALSE, dims |-> <<>>, data |-> <<>>]
Scalar(t, v)    == [type |-> t, array |-> FALSE, dims |-> <<>>, data |-> <<v>>]
Array(t, ds, d) == [type |-> t, array |-> TRUE, dims |-> ds, data |-> d]
IsScalar(v)     == v.type # "none" /\ ~v.array

VariantOK(v) ==
  \/ v = NoValue
  \/ \E t \in Type :
       /\ v \in [type : {t}, array : BOOLEAN, dims : Seq(Nat), data : Seq(Datum[t])]
       /\ ~v.array => v.dims = <<>> /\ Len(v.data) = 1

Attribute == {"class", "browseName", "displayName", "description", "inverseName", "flag",
              "value", "dataType", "valueRank", "dims", "dimsSize"}
IsAttributes(a) ==
  /\ DOMAIN a = Attribute /\ a = [x \in Attribute |-> a[x]]
  /\ a.class \in Class
  /\ {a.displayName, a.description, a.inverseName, a.browseName} \subseteq Text
  /\ DOMAIN a.flag = Flag /\ a.flag = [f \in Flag |-> a.flag[f]]

AttributesOK(a) == /\ IsAttributes(a)
                   /\ \A f \in Flag : a.flag[f] \in Int
                   /\ VariantOK(a.value)
                   /\ a.valueRank \in Int
                   /\ a.dims \in Seq(Nat) /\ a.dimsSize = Len(a.dims)

\* Only the attributes of variables and their types have a value and dimensions.
IsRequest(a) == /\ AttributesOK(a)
                /\ a.dataType \in Type \cup {"base", "null"}
                /\ ~HasValue(a.class) => a.value = NoValue /\ a.dims = <<>>

\* What a double is cast to, an integer, before it is written.
Truncated(v) == IF v < 0 THEN -One * ((-v) \div One) ELSE One * (v \div One)

ASSUME ConstantsOK == /\ Home \in Server
                      /\ \A a \in Requests : IsRequest(a)
                      /\ Half \in Nat \ {0} /\ One \in Nat \ {0}
                      /\ IsFiniteSet(Doubles) /\ Doubles \subseteq Int
                      /\ Floats \subseteq Doubles /\ 0 \in Floats
                      /\ \A v \in Doubles : Truncated(v) \in Doubles
                      /\ Garbage \subseteq Int /\ MaxVersion \in Nat

VARIABLES
  request,  \* the attributes the node is added with, chosen in Init
  node,     \* the node of each server
  pack,     \* the data of the znode
  version,  \* its version
  seen,     \* the version each server has pushed or copied last
  dead      \* the servers that a pack has killed

vars == <<request, node, pack, version, seen, dead>>

-----------------------------------------------------------------------------
(* To JSON.  A JSON value is a pair of its kind and what it holds. *)

Missing  == <<"missing", "nothing">>
There(j) == j[1] # "missing"

\* json_string refuses what is not UTF-8, and the key is never set.
EncodeText(t) == CASE t = "withNul" -> <<"string", "plain">>
                   [] t = "binary"  -> Missing
                   [] OTHER         -> <<"string", t>>

\* zkUA_jsonEncode_UA_Variant_setValue
EncodeDatum(t, v) ==
  CASE t = "Boolean"                   -> <<"boolean", v>>
    [] t \in {"Int32", "Int64"}        -> <<"integer", v>>
    [] t = "UInt64"                    -> <<"integer", IF v < Half THEN v ELSE v - 2 * Half>>
    [] t = "Float"                     -> <<"real", v>>
    [] t = "Double"                    -> <<"real", Truncated(v)>>
    [] t \in {"String", "QualifiedName"} -> EncodeText(v)
    [] OTHER                           -> <<"object", v>>

\* The type starts as an object that describes it and becomes a number with the
\* first datum: in an empty array never, in an array of structures neither, for
\* which nothing is written.
EncodeVariant(v) ==
  LET written == ~(v.array /\ v.type = "Structure") IN
  [type   |-> IF v.data = <<>> \/ ~written THEN "object"
              ELSE IF v.type = "Structure" THEN "unsupported"
              ELSE v.type,
   length |-> IF v.array THEN Len(v.data) ELSE 0,
   dims   |-> v.dims,
   data   |-> [i \in DOMAIN v.data |-> IF written THEN EncodeDatum(v.type, v.data[i]) ELSE Missing]]

EncodeValue(v) == IF v.type = "none" THEN <<"string", "empty">> ELSE <<"object", EncodeVariant(v)>>

\* Objects only have their eventNotifier written: the test is against the value
\* of (UA_NODECLASS_OBJECT || UA_NODECLASS_VIEW), which is 1.
EncodeFlag(c, f, v) ==
  IF \/ f \notin FlagsOf[c] \cup {"writeMask"}
     \/ f = "eventNotifier" /\ c # "Object"     THEN Missing
  ELSE IF f \in BooleanFlag                     THEN <<"boolean", v>>
  ELSE IF f = "minimumSamplingInterval"         THEN <<"integer", v \div One>>
  ELSE <<"integer", v>>

\* zkUA_jsonEncodeAttributes; the browse name is not among what it writes.
Encode(a) ==
  [class       |-> a.class,
   displayName |-> EncodeText(a.displayName),
   description |-> EncodeText(a.description),
   inverseName |-> EncodeText(a.inverseName),
   flag        |-> [f \in Flag |-> EncodeFlag(a.class, f, a.flag[f])],
   value       |-> EncodeValue(a.value),
   dataType    |-> a.dataType,
   valueRank   |-> a.valueRank,
   dimsSize    |-> a.dimsSize]

-----------------------------------------------------------------------------
(* From JSON *)

DecodeText(j) == IF There(j) THEN j[2] ELSE "(null)"

\* json_unpack writes a real's bits into a long long.  The bits of a double are its
\* place among those that are not negative, below the sign.
Bits(v) ==
  LET Place(w) == Cardinality({x \in Doubles : 0 <= x /\ x < w})
  IN IF v < 0 THEN Place(-v) - Cardinality({x \in Doubles : 0 <= x}) ELSE Place(v)

Distance(x, y) == IF x < y THEN y - x ELSE x - y

\* The long long is cast to a float or double again: the nearest one there is.
Misread ==
  [t \in {"Float", "Double"} |-> [v \in Doubles |->
     CHOOSE x \in Datum[t] : \A y \in Datum[t] :
       Distance(x, One * Bits(v)) <= Distance(y, One * Bits(v))]]

\* Without a body the type id is not read.  A body is looked for in an object, but was
\* written as a string.
DecodeExtensionObject(j) ==
  LET bare == j[2] \in {"nobody", "typed"}
  IN [ok |-> bare, v |-> IF bare THEN "nobody" ELSE "hollow"]

\* Timestamps and a status are looked for in objects, but were written as integers.
DecodeDataValue(j) ==
  [ok |-> j[2] = "plain", v |-> IF j[2] \in {"stamped", "zeroed"} THEN "zeroed" ELSE "plain"]

\* zkUA_jsonDecode_UA_Variant_setData: whether it succeeds, and what it leaves.
DecodeDatum(t, j) ==
  LET Read(v, z) == [ok |-> There(j), v |-> IF There(j) THEN v ELSE z] IN
  CASE t \in {"Boolean", "Int32", "Int64"} -> Read(j[2], 0)
    [] t = "UInt64"              -> Read(j[2] % (2 * Half), 0)
    [] t \in {"Float", "Double"} -> Read(Misread[t][j[2]], 0)
    [] t = "String"              -> [ok |-> TRUE, v |-> DecodeText(j)]
    [] t = "QualifiedName"       -> [ok |-> TRUE, v |-> IF There(j) THEN j[2] ELSE "blank"]
    [] t = "Guid"                -> [ok |-> TRUE, v |-> IF There(j) THEN j[2] ELSE 0]
    [] t = "ExtensionObject"     -> DecodeExtensionObject(j)
    [] t = "DataValue"           -> DecodeDataValue(j)
    [] OTHER                     -> [ok |-> FALSE, v |-> Zero(t)]

Crash        == [crash |-> TRUE,  ok |-> FALSE, value |-> NoValue]
Got(ok, v)   == [crash |-> FALSE, ok |-> ok, value |-> v]

\* A scalar UInt64 is tagged as an Int64, so its bits are read as one.
DecodeScalar(t, j) ==
  LET d == DecodeDatum(t, j) IN
  CASE t = "UInt64"    -> Got(d.ok, Scalar("Int64", IF d.v < Half THEN d.v ELSE d.v - 2 * Half))
    [] t = "Structure" -> Got(FALSE, Array(t, <<>>, <<>>))
    [] OTHER           -> Got(d.ok, Scalar(t, d.v))

\* Mutant: the last element is not read.
DecodeArrayShort(t, j) ==
  LET d == [i \in 1..(Len(j.data) - 1) |-> DecodeDatum(t, j.data[i])]
      Before(i) == \A k \in 1..(i - 1) : d[k].ok
      ok == \A i \in DOMAIN d : d[i].ok
  IN Got(ok, Array(t, IF ok THEN j.dims ELSE <<>>,
                   [i \in DOMAIN d |-> IF Before(i) THEN d[i].v ELSE Zero(t)]))

\* The elements after the first that fails stay as the array was allocated, and
\* the dimensions are read only if none does.
DecodeArray(t, j) ==
  LET d == [i \in DOMAIN j.data |-> DecodeDatum(t, j.data[i])]
      Before(i) == \A k \in 1..(i - 1) : d[k].ok
      ok == \A i \in DOMAIN d : d[i].ok
  IN Got(ok, Array(t, IF ok THEN j.dims ELSE <<>>,
                   [i \in DOMAIN d |-> IF Before(i) THEN d[i].v ELSE Zero(t)]))

\* "wild" is a type that is none of open62541's, "unsupported" its mark, 999.
DecodeAs(t, j) ==
  LET first == IF j.data = <<>> THEN Missing ELSE j.data[1] IN
  IF t = "wild" \/ (t = "ExtensionObject" /\ ~There(first)) THEN Crash
  ELSE IF t = "unsupported" THEN Got(FALSE, NoValue)
  ELSE IF j.length = 0      THEN DecodeScalar(t, first)
  ELSE DecodeArray(t, j)

\* A type that is no number leaves typeInt as it was on the stack; a value that is
\* no object, the string "empty" among them, is an error.
DecodeValue(j) ==
  IF j[1] # "object" THEN {Got(FALSE, NoValue)}
  ELSE {DecodeAs(t, j[2]) : t \in IF j[2].type = "object" THEN Type \cup {"wild", "unsupported"}
                                  ELSE {j[2].type}}

\* Mutant: the format of accessLevel is the one of userAccessLevel.
FormatAllU ==
  [f \in Flag |-> CASE f \in BooleanFlag \cup {"containsNoLoops"} -> "boolean"
                    [] f = "minimumSamplingInterval"             -> "real"
                    [] f = "eventNotifier"                       -> "integer"
                    [] OTHER                                     -> "none"]

\* What json_unpack is told to expect.  writeMask is not read, and "u", for
\* userAccessLevel, is no format of json_unpack.
Format ==
  [f \in Flag |-> CASE f \in BooleanFlag \cup {"containsNoLoops"} -> "boolean"
                    [] f = "minimumSamplingInterval"             -> "real"
                    [] f \in {"eventNotifier", "accessLevel"}    -> "integer"
                    [] OTHER                                     -> "none"]

\* These three are unpacked into a temporary that nothing initialises, the others
\* into the attributes, which start as zeroes.
Temporary == {"eventNotifier", "accessLevel", "userAccessLevel"}

DecodeFlag(c, f, j, garbage) ==
  IF j[1] = Format[f]                         THEN j[2]
  ELSE IF f \in Temporary \cap FlagsOf[c]      THEN garbage
  ELSE 0

\* zkUA_jsonDecode_zkNodeToUa: the attributes, and a browse name made of the
\* display name.  If the value is an error, the data type, the rank and the
\* dimensions are not read, but what comes after them is, and the node is added
\* all the same.  Of the dimensions there is only their number.
Decode(p, d, garbage) ==
  [class       |-> p.class,
   browseName  |-> DecodeText(p.displayName),
   displayName |-> DecodeText(p.displayName),
   description |-> DecodeText(p.description),
   inverseName |-> DecodeText(p.inverseName),
   flag        |-> [f \in Flag |-> DecodeFlag(p.class, f, p.flag[f], garbage)],
   value       |-> d.value,
   dataType    |-> IF d.ok THEN p.dataType ELSE "null",
   valueRank   |-> IF d.ok THEN p.valueRank ELSE 0,
   dims        |-> <<>>,
   dimsSize    |-> IF d.ok THEN p.dimsSize ELSE 0]

-----------------------------------------------------------------------------
(* The store: open62541's checks of the attributes *)

\* Mutant: a scalar whose rank was left 0 keeps it.
CreatedAsGiven(a) ==
  [a EXCEPT !.dataType = IF HasValue(a.class) /\ @ = "null" THEN "base" ELSE @]

\* Mutant: a missing data type is not replaced.
CreatedUntyped(a) ==
  [a EXCEPT !.valueRank = IF HasValue(a.class) /\ @ = 0 /\ IsScalar(a.value) THEN -2 ELSE @]

\* copyCommonVariableAttributes against BaseDataVariableType: any type, any rank.
Created(a) ==
  [a EXCEPT !.dataType  = IF HasValue(a.class) /\ @ = "null" THEN "base" ELSE @,
            !.valueRank = IF HasValue(a.class) /\ @ = 0 /\ IsScalar(a.value) THEN -2 ELSE @]

RankAllows(rank, n) ==
  CASE rank = -3 -> n <= 1
    [] rank = -2 -> TRUE
    [] rank = -1 -> n = 0
    [] rank = 0  -> n >= 1
    [] OTHER     -> n = rank

Shape(v) == IF v.dims # <<>> \/ IsScalar(v) THEN v.dims ELSE <<Len(v.data)>>

\* writeValueRankAttribute, then typeCheckValue: dimensions that are given must
\* agree with the rank and bind the value; without them an array counts as one of
\* one dimension, whatever its own dimensions are.
Fits(n) ==
  /\ n.value.type = "none" \/ n.dataType \in {"base", n.value.type}
  /\ n.dims # <<>> =>
       /\ RankAllows(n.valueRank, Len(n.dims))
       /\ Len(Shape(n.value)) = Len(n.dims)
       /\ \A i \in DOMAIN n.dims : n.dims[i] \in {0, Shape(n.value)[i]}
  /\ (n.dims = <<>> /\ n.value.type # "none") =>
       RankAllows(n.valueRank, IF IsScalar(n.value) THEN 0 ELSE 1)

\* UA_Array_copy is given the number of dimensions and a pointer to them.
Kills(a)   == HasValue(a.class) /\ a.dimsSize > Len(a.dims)
Refuses(a) == a.class = "Method" \/ (HasValue(a.class) /\ ~Fits(Created(a)))

\* Mutant: whether the node exists is found out first.
AddNodeExistsFirst(old, a) ==
  IF old # Absent     THEN "exists"
  ELSE IF Kills(a)    THEN "crash"
  ELSE IF Refuses(a)  THEN "bad"
  ELSE "good"

\* _Service_AddNodes_single: the node is made from its attributes before the
\* store is asked whether it has one.
AddNode(old, a) ==
  IF Kills(a)            THEN "crash"
  ELSE IF Refuses(a)     THEN "bad"
  ELSE IF old # Absent   THEN "exists"
  ELSE "good"

\* zkNodeToUa: a node that exists is deleted and added again.
Replaced(old, a) ==
  CASE AddNode(old, a) = "good"   -> Created(a)
    [] AddNode(old, a) = "exists" -> IF AddNode(Absent, a) = "good" THEN Created(a) ELSE Absent
    [] OTHER                      -> old

-----------------------------------------------------------------------------
(* The actions *)

Push(s, a) == /\ version < MaxVersion
              /\ version' = version + 1
              /\ seen' = [seen EXCEPT ![s] = version + 1]
              /\ pack' = Encode(a)

\* zkUA_Service_AddNodes_single: what is pushed is what was asked for, though the
\* store may have refused it.
AddNodesRequest ==
  /\ version = 0 /\ node[Home] = Absent
  /\ node' = [node EXCEPT ![Home] = IF AddNode(Absent, request) = "good" THEN Created(request) ELSE Absent]
  /\ Push(Home, request)
  /\ UNCHANGED <<request, dead>>

\* The same while ZooKeeper does not answer, and every method, which the server
\* adds by other means.
AddUnpushed ==
  /\ version = 0 /\ node[Home] = Absent
  /\ request.class = "Method" \/ AddNode(Absent, request) = "good"
  /\ node' = [node EXCEPT ![Home] = Created(request)]
  /\ UNCHANGED <<request, pack, version, seen, dead>>

\* zkUA_initReadAttributes_server: arrayDimensionsSize is taken from the variant
\* that holds the dimensions, which has none itself; userAccessLevel is not read.
ReadBack(n) ==
  [n EXCEPT !.dims = <<>>, !.dimsSize = 0, !.flag = [@ EXCEPT !["userAccessLevel"] = 0]]

\* A client writes an attribute, with the value it has, through any server.
WriteBack(s) ==
  /\ s \notin dead /\ node[s] # Absent
  /\ Push(s, ReadBack(node[s]))
  /\ UNCHANGED <<request, node, dead>>

\* zkUA_BrowseFolder copies a server to a ZooKeeper that has no such node; the
\* servers see a node that is new to them.  Of the dimensions it has the number.
ClientCopies ==
  /\ pack = Absent /\ node[Home] # Absent /\ version < MaxVersion
  /\ pack' = Encode(node[Home])
  /\ version' = version + 1
  /\ UNCHANGED <<request, node, seen, dead>>

Decoded(s, d, garbage) ==
  LET a == Decode(pack, d, garbage)
  IN IF d.crash \/ AddNode(node[s], a) = "crash"
       THEN dead' = dead \cup {s} /\ node' = [node EXCEPT ![s] = Absent]
       ELSE dead' = dead /\ node' = [node EXCEPT ![s] = Replaced(@, a)]

\* Methods are recognised and left.
Copy(s) ==
  /\ s \notin dead /\ seen[s] < version
  /\ seen' = [seen EXCEPT ![s] = version]
  /\ IF pack.class = "Method" THEN UNCHANGED <<node, dead>>
     ELSE \E d \in DecodeValue(pack.value), g \in Garbage : Decoded(s, d, g)
  /\ UNCHANGED <<request, pack, version>>

Init ==
  /\ request \in Requests
  /\ node = [s \in Server |-> Absent]
  /\ pack = Absent
  /\ version = 0
  /\ seen = [s \in Server |-> 0]
  /\ dead = {}

Next == \/ AddNodesRequest
        \/ AddUnpushed
        \/ ClientCopies
        \/ \E s \in Server : WriteBack(s) \/ Copy(s)

Spec == Init /\ [][Next]_vars

-----------------------------------------------------------------------------
(* Properties *)

\* Types: what the servers hold are nodes, whole and of a known type, whatever the
\* decoder left in the attributes.
TypeOK ==
  /\ AttributesOK(request)
  /\ dead \subseteq Server
  /\ version \in 0..MaxVersion /\ seen \in [Server -> 0..version]
  /\ \A s \in Server : node[s] # Absent =>
       /\ AttributesOK(node[s])
       /\ HasValue(node[s].class) => node[s].dataType \in Type \cup {"base"}

\* What a text becomes on the way: cut at a NUL, or "(null)".
Carried(t) == CASE t = "withNul" -> "plain" [] t = "binary" -> "(null)" [] OTHER -> t

CarriedFlag(c) == (BooleanFlag \cup {"accessLevel"})
                  \cup (IF c = "Object" THEN {"eventNotifier"} ELSE {})

\* However often a node is pushed and copied, by whichever servers, its class,
\* texts, access level, Boolean attributes and (an object's) event notifier are
\* those it was added with, and the texts are spoilt at most once
\* (zkUA_jsonEncodeAttributes against zkUA_jsonDecode_zkNodeToUa).
AttributesSurvive ==
  \A s \in Server : node[s] # Absent =>
    LET n == node[s] IN
    /\ n.class = request.class
    /\ \A x \in {"displayName", "description", "inverseName"} :
         n[x] = Carried(request[x]) \/ (s = Home /\ n[x] = request[x])
    /\ n.browseName = n.displayName \/ (s = Home /\ n.browseName = request.browseName)
    /\ \A f \in CarriedFlag(n.class) \cap FlagsOf[n.class] : n.flag[f] = request.flag[f]

\* Values that the JSON form can hold: no reals, no scalar UInt64, nothing of a
\* structure, no empty array.
Portable(v) ==
  \/ /\ v.type \in {"none", "Boolean", "Int32", "Int64", "String", "QualifiedName", "Guid"}
     /\ ~(v.array /\ v.data = <<>>)
  \/ v.type = "UInt64" /\ v.array /\ v.data # <<>>
  \/ v.type = "ExtensionObject" /\ v.data # <<>> /\ \A i \in DOMAIN v.data : v.data[i] = "nobody"
  \/ v.type = "DataValue" /\ v.data # <<>> /\ \A i \in DOMAIN v.data : v.data[i] = "plain"

CarriedValue(v) ==
  CASE v.type = "String"        -> [v EXCEPT !.data = [i \in DOMAIN v.data |-> Carried(v.data[i])]]
    [] v.type = "QualifiedName" -> [v EXCEPT !.data = [i \in DOMAIN v.data |->
                                      IF v.data[i] = "binary" THEN "blank" ELSE Carried(v.data[i])]]
    [] OTHER                    -> v

\* A portable value, scalar or array, is on every server that holds the node,
\* with all its elements and its own dimensions (zkUA_jsonEncode_UA_Variant
\* against zkUA_jsonDecode_UA_Variant).
ValuesSurvive ==
  \A s \in Server : (node[s] # Absent /\ Portable(request.value)) =>
    \/ node[s].value = CarriedValue(request.value)
    \/ s = Home /\ node[s].value = request.value

\* A value whose JSON names no type is read as whatever is on the stack.
Untyped(v) == v.array /\ (v.data = <<>> \/ v.type = "Structure")

\* A value but for the reals in it.
WithoutReals(v) ==
  IF v.type \in {"Float", "Double"} THEN [v EXCEPT !.data = [i \in DOMAIN @ |-> 0]] ELSE v

\* What two servers may differ in: bytes that were never initialised, and reals.
Settled(n) ==
  [n EXCEPT !.value = WithoutReals(@),
            !.flag = [f \in Flag |-> IF \/ f = "userAccessLevel"
                                        \/ f = "eventNotifier" /\ n.class = "View" THEN 0 ELSE @[f]]]

\* Any two copies are alike, though one was read from the first server's pack and
\* the other from a copy of a copy: what a passage spoils it spoils once (the
\* decoder's results are read back, encoded and decoded again).  The exception are
\* the numbers in a Float or Double, or an array of them: each passage takes the bits
\* of the last one's result for a number, so they differ from copy to copy, and only
\* their type, how many there are and the dimensions are the same everywhere.
CopiesAgree ==
  \A s, t \in Server \ {Home} :
    (node[s] # Absent /\ node[t] # Absent /\ ~Untyped(request.value))
      => Settled(node[s]) = Settled(node[t])

\* A node that the first server took is on every server that has seen its last
\* pack, except a method, one with array dimensions, one whose value has no type
\* in JSON and one that holds a UInt64 where its data type says so
\* (createNodeFromAttributes judges what the decoder made of the pack).
Copyable(a) == ~Refuses(a) /\ a.dims = <<>> /\ ~Untyped(a.value)
               /\ ~(IsScalar(a.value) /\ a.value.type = "UInt64" /\ a.dataType = "UInt64")
NodesReachEveryServer ==
  \A s \in Server : (Copyable(request) /\ version > 0 /\ seen[s] = version) =>
    s \notin dead /\ node[s] # Absent

\* A server that lives never loses the node to a pack, not even to one that its
\* store refuses: the node that exists is deleted only when the attributes of the
\* new one have passed (zkUA_jsonDecode_zkNodeToUa deletes on BADNODEIDEXISTS).
ReplacementKeepsNode ==
  [][\A s \in Server : (node[s] # Absent /\ s \notin dead') => node'[s] # Absent]_vars
=============================================================================
