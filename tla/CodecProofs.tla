---------------------------- MODULE CodecProofs ----------------------------
(***************************************************************************)
(* Proofs about Codec, for any servers, requests, widths, garbage and      *)
(* number of pushes, in two parts.  First the texts, the class and the     *)
(* carried flags of a node, and that a pack never makes a server lose its  *)
(* node; then values, data types and ranks, and what the stores make of    *)
(* them.  Both rest on one fact: but for the reals, a second passage       *)
(* spoils nothing that the first one left, so that what is on ZooKeeper    *)
(* may come from any copy.                                                 *)
(***************************************************************************)
EXTENDS Codec, WellFoundedInduction, FiniteSetTheorems, TLAPS

TextField == {"displayName", "description", "inverseName"}

\* Attributes a that are the request's but for what one passage does to texts.
Kept(a) ==
  /\ IsAttributes(a)
  /\ a.class = request.class
  /\ \A x \in TextField : a[x] = request[x] \/ a[x] = Carried(request[x])
  /\ \A f \in CarriedFlag(request.class) \cap FlagsOf[request.class] : a.flag[f] = request.flag[f]

PackKept ==
  /\ pack.class = request.class
  /\ \A x \in TextField : DecodeText(pack[x]) = Carried(request[x])
  /\ \A f \in CarriedFlag(request.class) \cap FlagsOf[request.class] :
       pack.flag[f] = <<Format[f], request.flag[f]>>

NodeKept(s) ==
  /\ Kept(node[s])
  /\ s # Home => \A x \in TextField : node[s][x] = Carried(request[x])
  /\ node[s].browseName = node[s].displayName \/ (s = Home /\ node[s].browseName = request.browseName)

Inv ==
  /\ request \in Requests
  /\ version \in Nat /\ seen \in [Server -> Nat]
  /\ DOMAIN node = Server /\ node = [s \in Server |-> node[s]]
  /\ version > 0 => PackKept
  /\ \A s \in Server : node[s] # Absent => NodeKept(s)

-----------------------------------------------------------------------------
(* What one passage does *)

\* A text is spoilt once: a second passage leaves it as it is.
LEMMA TextOnce ==
  ASSUME NEW t \in Text
  PROVE  /\ DecodeText(EncodeText(t)) = Carried(t)
         /\ Carried(t) \in Text
         /\ Carried(Carried(t)) = Carried(t)
BY DEF Text, DecodeText, EncodeText, Carried, There, Missing

\* A flag that is carried is written with the format it is read with.
LEMMA FlagFormat ==
  ASSUME NEW c \in Class, NEW f \in CarriedFlag(c) \cap FlagsOf[c], NEW v
  PROVE  EncodeFlag(c, f, v) = <<Format[f], v>>
<1>1. CASE f \in BooleanFlag
  BY <1>1 DEF BooleanFlag, EncodeFlag, Format, Flag
<1>2. CASE f = "accessLevel"
  BY <1>2 DEF EncodeFlag, Format, BooleanFlag, Flag, IntegerFlag
<1>3. CASE f = "eventNotifier" /\ c = "Object"
  BY <1>3 DEF EncodeFlag, Format, BooleanFlag, Flag, IntegerFlag
<1>4. QED
  BY <1>1, <1>2, <1>3 DEF CarriedFlag

\* Encoding keeps in the pack what Kept says of the attributes.
LEMMA EncodeKeeps ==
  ASSUME request \in Requests, NEW a, Kept(a)
  PROVE  LET p == Encode(a) IN
         /\ p.class = request.class
         /\ \A x \in TextField : DecodeText(p[x]) = Carried(request[x])
         /\ \A f \in CarriedFlag(request.class) \cap FlagsOf[request.class] :
              p.flag[f] = <<Format[f], request.flag[f]>>
<1> DEFINE p == Encode(a)
<1>1. IsAttributes(request)
  BY ConstantsOK DEF IsRequest, AttributesOK
<1>2. p.class = request.class
  BY DEF Encode, Kept
<1>3. ASSUME NEW x \in TextField
      PROVE  DecodeText(p[x]) = Carried(request[x])
  <2>1. request[x] \in Text
    BY <1>1 DEF IsAttributes, TextField
  <2>2. p[x] = EncodeText(a[x])
    BY DEF Encode, TextField
  <2>3. a[x] = request[x] \/ a[x] = Carried(request[x])
    BY DEF Kept
  <2>4. QED
    BY <2>1, <2>2, <2>3, TextOnce
<1>4. ASSUME NEW f \in CarriedFlag(request.class) \cap FlagsOf[request.class]
      PROVE  p.flag[f] = <<Format[f], request.flag[f]>>
  <2>1. f \in Flag
    BY DEF CarriedFlag, Flag, BooleanFlag, IntegerFlag
  <2>2. p.flag[f] = EncodeFlag(a.class, f, a.flag[f])
    BY <2>1 DEF Encode
  <2>3. a.class = request.class /\ a.flag[f] = request.flag[f]
    BY DEF Kept
  <2>4. request.class \in Class
    BY <1>1 DEF IsAttributes
  <2>5. QED
    BY <2>2, <2>3, <2>4, FlagFormat
<1>5. QED
  BY <1>2, <1>3, <1>4

\* Created only touches the data type and the rank.
LEMMA CreatedSame ==
  ASSUME NEW a, IsAttributes(a)
  PROVE  /\ IsAttributes(Created(a))
         /\ Created(a).class = a.class /\ Created(a).flag = a.flag
         /\ Created(a).browseName = a.browseName
         /\ \A x \in TextField : Created(a)[x] = a[x]
         /\ Created(a) # Absent
<1> DEFINE n == Created(a)
<1>1. DOMAIN n = Attribute /\ n = [x \in Attribute |-> n[x]]
  BY DEF Created, IsAttributes
<1>2. \A x \in Attribute \ {"dataType", "valueRank"} : n[x] = a[x]
  BY DEF Created, IsAttributes
<1>3. /\ n.class = a.class /\ n.flag = a.flag /\ n.browseName = a.browseName
      /\ n.displayName = a.displayName /\ n.description = a.description
      /\ n.inverseName = a.inverseName
  BY <1>2 DEF Attribute
<1>4. IsAttributes(n)
  BY <1>1, <1>3 DEF IsAttributes
<1>5. n # Absent
  BY <1>3 DEF IsAttributes, Absent, Class
<1>6. QED
  BY <1>3, <1>4, <1>5 DEF TextField

\* What a server makes of a pack that keeps the request.
LEMMA DecodeKeeps ==
  ASSUME request \in Requests, PackKept, NEW d, NEW g
  PROVE  LET a == Decode(pack, d, g) IN
         /\ Kept(a)
         /\ \A x \in TextField : a[x] = Carried(request[x])
         /\ a.browseName = a.displayName
<1> DEFINE a == Decode(pack, d, g)
<1>1. IsAttributes(request)
  BY ConstantsOK DEF IsRequest, AttributesOK
<1>2. a.class = request.class
  BY DEF Decode, PackKept
<1>3. \A x \in TextField : a[x] = Carried(request[x])
  BY DEF Decode, PackKept, TextField
<1>4. a.browseName = a.displayName
  BY DEF Decode
<1>5. \A x \in TextField : Carried(request[x]) \in Text
  BY <1>1, TextOnce DEF IsAttributes, TextField
<1>6. /\ DOMAIN a = Attribute /\ a = [x \in Attribute |-> a[x]]
      /\ DOMAIN a.flag = Flag /\ a.flag = [f \in Flag |-> a.flag[f]]
  BY DEF Decode, Attribute
<1>7. IsAttributes(a)
  BY <1>1, <1>2, <1>3, <1>4, <1>5, <1>6 DEF IsAttributes, TextField
<1>8. ASSUME NEW f \in CarriedFlag(request.class) \cap FlagsOf[request.class]
      PROVE  a.flag[f] = request.flag[f]
  <2>1. f \in Flag
    BY DEF CarriedFlag, Flag, BooleanFlag, IntegerFlag
  <2>2. a.flag[f] = DecodeFlag(pack.class, f, pack.flag[f], g)
    BY <2>1 DEF Decode
  <2>3. pack.flag[f] = <<Format[f], request.flag[f]>>
    BY DEF PackKept
  <2>4. pack.flag[f][1] = Format[f] /\ pack.flag[f][2] = request.flag[f]
    BY <2>3
  <2>5. QED
    BY <2>2, <2>4 DEF DecodeFlag
<1>9. QED
  BY <1>2, <1>3, <1>4, <1>7, <1>8 DEF Kept

\* A node read back is what it was, but for the user access level and dimensions.
LEMMA ReadBackKeeps ==
  ASSUME NEW n, Kept(n)
  PROVE  Kept(ReadBack(n))
<1> DEFINE r == ReadBack(n)
<1>1. \A x \in Attribute \ {"dims", "dimsSize", "flag"} : r[x] = n[x]
  BY DEF ReadBack, Kept, IsAttributes
<1>2. DOMAIN r = Attribute /\ r = [x \in Attribute |-> r[x]]
  BY DEF ReadBack, Kept, IsAttributes
<1>3. r.flag = [n.flag EXCEPT !["userAccessLevel"] = 0]
  BY DEF ReadBack, Kept, IsAttributes, Attribute
<1>4. DOMAIN r.flag = Flag /\ r.flag = [f \in Flag |-> r.flag[f]]
  BY <1>3 DEF Kept, IsAttributes
<1>5. \A f \in Flag \ {"userAccessLevel"} : r.flag[f] = n.flag[f]
  BY <1>3 DEF Kept, IsAttributes
<1>6. \A f \in CarriedFlag(request.class) : f \in Flag \ {"userAccessLevel"}
  BY DEF CarriedFlag, Flag, BooleanFlag, IntegerFlag
<1>7. /\ r.class = n.class /\ r.browseName = n.browseName /\ r.displayName = n.displayName
      /\ r.description = n.description /\ r.inverseName = n.inverseName
  BY <1>1 DEF Attribute
<1>8. IsAttributes(r)
  BY <1>2, <1>4, <1>7 DEF Kept, IsAttributes
<1>9. QED
  BY <1>5, <1>6, <1>7, <1>8 DEF Kept, TextField

\* What zkNodeToUa leaves is the old node or the new one, and the old one only if
\* the new one is refused.
LEMMA ReplacedIs ==
  ASSUME NEW old, NEW a, IsAttributes(a)
  PROVE  /\ Replaced(old, a) \in {old, Created(a)}
         /\ old # Absent => Replaced(old, a) # Absent
<1>1. AddNode(old, a) = "exists" => AddNode(Absent, a) = "good"
  BY DEF AddNode
<1>2. Created(a) # Absent
  BY CreatedSame
<1>3. QED
  BY <1>1, <1>2 DEF Replaced

\* Created keeps what Kept says.
LEMMA CreatedKeeps ==
  ASSUME NEW a, Kept(a)
  PROVE  Kept(Created(a))
<1>1. IsAttributes(a)
  BY DEF Kept
<1>2. QED
  BY <1>1, CreatedSame DEF Kept

-----------------------------------------------------------------------------
(* The invariant *)

\* The invariant holds at the start, where there is neither node nor pack.
LEMMA InvInit == Init => Inv
BY DEF Init, Inv

\* A node that the server was asked to add is the request, and so is its pack.
LEMMA InvAdded ==
  ASSUME Inv, AddNodesRequest \/ AddUnpushed
  PROVE  Inv'
<1>1. IsAttributes(request)
  BY ConstantsOK DEF Inv, IsRequest, AttributesOK
<1>2. Kept(request)
  BY <1>1 DEF Kept
<1>3. request' = request
  BY DEF AddNodesRequest, AddUnpushed
<1>4. /\ DOMAIN node' = Server /\ node' = [s \in Server |-> node'[s]]
      /\ \A s \in Server : s # Home => node'[s] = node[s]
      /\ node'[Home] \in {Absent, Created(request)}
  <2>1. DOMAIN node = Server /\ Home \in Server
    BY ConstantsOK DEF Inv
  <2>2. PICK n \in {Absent, Created(request)} : node' = [node EXCEPT ![Home] = n]
    BY DEF AddNodesRequest, AddUnpushed
  <2>3. QED
    BY <2>1, <2>2
<1>5. version' \in Nat /\ seen' \in [Server -> Nat]
  BY DEF AddNodesRequest, AddUnpushed, Push, Inv
<1>6. (version > 0 => PackKept)'
  <2>1. CASE AddNodesRequest
    <3>1. pack' = Encode(request)
      BY <2>1 DEF AddNodesRequest, Push
    <3>2. QED
      BY <1>2, <1>3, <3>1, EncodeKeeps DEF PackKept, Inv
  <2>2. CASE AddUnpushed
    BY <2>2, <1>3 DEF AddUnpushed, Inv, PackKept
  <2>3. QED
    BY <2>1, <2>2
<1>7. ASSUME NEW s \in Server, node'[s] # Absent
      PROVE  NodeKept(s)'
  <2>1. CASE s = Home
    <3>1. node'[s] = Created(request)
      BY <1>4, <1>7, <2>1
    <3>2. Kept(Created(request)) /\ Created(request).browseName = request.browseName
      BY <1>1, <1>2, CreatedKeeps, CreatedSame
    <3>3. QED
      BY <1>3, <2>1, <3>1, <3>2 DEF NodeKept, Kept
  <2>2. CASE s # Home
    BY <1>3, <1>4, <1>7, <2>2 DEF Inv, NodeKept, Kept
  <2>3. QED
    BY <2>1, <2>2
<1>8. QED
  BY <1>3, <1>4, <1>5, <1>6, <1>7 DEF Inv

\* A server or a client that writes a pack writes one that keeps the request.
LEMMA InvPushed ==
  ASSUME Inv, ClientCopies \/ \E s \in Server : WriteBack(s)
  PROVE  Inv'
<1>1. node' = node /\ request' = request
  BY DEF ClientCopies, WriteBack
<1>2. version' \in Nat /\ seen' \in [Server -> Nat]
  BY DEF ClientCopies, WriteBack, Push, Inv
<1>3. PICK s \in Server : /\ node[s] # Absent
                          /\ pack' \in {Encode(node[s]), Encode(ReadBack(node[s]))}
  BY ConstantsOK DEF ClientCopies, WriteBack, Push
<1>4. Kept(node[s]) /\ Kept(ReadBack(node[s]))
  BY <1>3, ReadBackKeeps DEF Inv, NodeKept
<1>5. PackKept'
  <2>1. CASE pack' = Encode(node[s])
    BY <1>1, <1>4, <2>1, EncodeKeeps DEF PackKept, Inv
  <2>2. CASE pack' = Encode(ReadBack(node[s]))
    BY <1>1, <1>4, <2>2, EncodeKeeps DEF PackKept, Inv
  <2>3. QED
    BY <1>3, <2>1, <2>2
<1>6. QED
  BY <1>1, <1>2, <1>5 DEF Inv, NodeKept, Kept

\* A server that copies holds what the pack keeps, what it had, or nothing.
LEMMA CopyIs ==
  ASSUME Inv, NEW s \in Server, Copy(s)
  PROVE  /\ DOMAIN node' = Server /\ node' = [t \in Server |-> node'[t]]
         /\ \A t \in Server : t # s => node'[t] = node[t]
         /\ \/ node'[s] \in {node[s], Absent}
            \/ \E d, g : node'[s] = Created(Decode(pack, d, g))
         /\ (node[s] # Absent /\ s \notin dead') => node'[s] # Absent
<1>1. DOMAIN node = Server /\ node = [t \in Server |-> node[t]]
  BY DEF Inv
<1>2. CASE pack.class = "Method"
  BY <1>1, <1>2 DEF Copy
<1>3. CASE pack.class # "Method"
  <2>1. PICK d, g : Decoded(s, d, g)
    BY <1>3 DEF Copy
  <2> DEFINE a == Decode(pack, d, g)
  <2>2. version > 0
    BY DEF Copy, Inv
  <2>3. IsAttributes(a)
    BY <2>2, DecodeKeeps DEF Inv, Kept
  <2>4. Replaced(node[s], a) \in {node[s], Created(a)}
        /\ (node[s] # Absent => Replaced(node[s], a) # Absent)
    BY <2>3, ReplacedIs
  <2>5. CASE s \in dead' /\ node' = [node EXCEPT ![s] = Absent]
    BY <1>1, <2>5
  <2>6. CASE node' = [node EXCEPT ![s] = Replaced(@, a)]
    BY <1>1, <2>4, <2>6
  <2>7. QED
    BY <2>1, <2>5, <2>6 DEF Decoded
<1>4. QED
  BY <1>2, <1>3

\* Copying a pack keeps the invariant.
LEMMA InvCopied ==
  ASSUME Inv, NEW s \in Server, Copy(s)
  PROVE  Inv'
<1>1. request' = request /\ pack' = pack /\ version' = version
  BY DEF Copy
<1>2. seen' \in [Server -> Nat]
  BY DEF Copy, Inv
<1>3. (version > 0 => PackKept)'
  BY <1>1 DEF Inv, PackKept
<1>4. version > 0 /\ PackKept
  BY DEF Copy, Inv
<1>5. ASSUME NEW t \in Server, node'[t] # Absent
      PROVE  NodeKept(t)'
  <2>1. CASE node'[t] = node[t]
    BY <1>1, <1>5, <2>1 DEF Inv, NodeKept, Kept
  <2>2. CASE \E d, g : node'[t] = Created(Decode(pack, d, g))
    <3>1. PICK d, g : node'[t] = Created(Decode(pack, d, g))
      BY <2>2
    <3> DEFINE a == Decode(pack, d, g)
    <3>2. /\ Kept(a) /\ a.browseName = a.displayName
          /\ \A x \in TextField : a[x] = Carried(request[x])
      BY <1>4, DecodeKeeps DEF Inv
    <3>3. IsAttributes(a)
      BY <3>2 DEF Kept
    <3>4. Kept(Created(a))
      BY <3>2, CreatedKeeps
    <3>5. /\ \A x \in TextField : Created(a)[x] = Carried(request[x])
          /\ Created(a).browseName = Created(a).displayName
      BY <3>2, <3>3, CreatedSame DEF TextField
    <3>6. QED
      BY <1>1, <3>1, <3>4, <3>5 DEF NodeKept, Kept
  <2>3. QED
    BY <1>5, <2>1, <2>2, CopyIs
<1>6. QED
  BY <1>1, <1>2, <1>3, <1>5, CopyIs DEF Inv

\* Every step keeps the invariant.
LEMMA InvNext == Inv /\ [Next]_vars => Inv'
<1>1. ASSUME Inv, UNCHANGED vars PROVE Inv'
  BY <1>1 DEF vars, Inv, PackKept, NodeKept, Kept
<1>2. QED
  BY <1>1, InvAdded, InvPushed, InvCopied DEF Next

-----------------------------------------------------------------------------
(* The theorems *)

\* What AttributesSurvive says follows from the invariant.
LEMMA InvSurvives == Inv => AttributesSurvive
<1> SUFFICES ASSUME Inv, NEW s \in Server, node[s] # Absent
             PROVE  /\ node[s].class = request.class
                    /\ \A x \in TextField :
                         node[s][x] = Carried(request[x]) \/ (s = Home /\ node[s][x] = request[x])
                    /\ node[s].browseName = node[s].displayName \/ (s = Home /\ node[s].browseName = request.browseName)
                    /\ \A f \in CarriedFlag(node[s].class) \cap FlagsOf[node[s].class] :
                         node[s].flag[f] = request.flag[f]
  BY DEF AttributesSurvive, TextField
<1>1. NodeKept(s)
  BY DEF Inv
<1>2. QED
  BY <1>1 DEF NodeKept, Kept

\* However often a node is pushed and copied, by any number of servers, its class,
\* texts and carried flags are those it was added with, the texts spoilt at most
\* once (zk_jsonEncode.c against zk_jsonDecode.c).
THEOREM AttributesCarried == Spec => []AttributesSurvive
<1>1. Spec => []Inv
  BY InvInit, InvNext, PTL DEF Spec
<1>2. QED
  BY <1>1, InvSurvives, PTL

\* No step but a crash takes the node from a server.
LEMMA StepKeepsNode ==
  ASSUME Inv, [Next]_vars
  PROVE  [\A s \in Server : (node[s] # Absent /\ s \notin dead') => node'[s] # Absent]_vars
<1> SUFFICES ASSUME NEW s \in Server, node[s] # Absent, s \notin dead', Next
             PROVE  node'[s] # Absent
  OBVIOUS
<1>1. CASE AddNodesRequest \/ AddUnpushed
  BY <1>1, ConstantsOK DEF AddNodesRequest, AddUnpushed, Inv
<1>2. CASE ClientCopies \/ \E t \in Server : WriteBack(t)
  BY <1>2 DEF ClientCopies, WriteBack
<1>3. CASE \E t \in Server : Copy(t)
  BY <1>3, CopyIs
<1>4. QED
  BY <1>1, <1>2, <1>3 DEF Next

\* A pack that a server's store refuses never costs it the node it has, whatever
\* the pack holds (zkUA_jsonDecode_zkNodeToUa deletes, then adds).
THEOREM ReplacementSafe == Spec => ReplacementKeepsNode
<1>1. Spec => []Inv
  BY InvInit, InvNext, PTL DEF Spec
<1>2. QED
  BY <1>1, StepKeepsNode, PTL DEF Spec, ReplacementKeepsNode

-----------------------------------------------------------------------------
(* What one passage does to a datum *)

\* What one passage makes of a datum.
PassedDatum(t, v) == DecodeDatum(t, EncodeDatum(t, v))

\* The types of which every datum arrives as it was.
Exact == {"Boolean", "Int32", "Int64", "UInt64", "Guid"}

\* An unsigned integer of 64 bits, written as a signed one and read as an unsigned
\* one, is itself.
LEMMA Wraps ==
  ASSUME NEW v \in 0..(2 * Half - 1)
  PROVE  /\ v < Half => v % (2 * Half) = v
         /\ v >= Half => (v - 2 * Half) % (2 * Half) = v
<1>1. Half \in Nat \ {0}
  BY ConstantsOK
<1> DEFINE m == 2 * Half
<1>2. m \in Nat \ {0} /\ v \in 0..(m - 1)
  BY <1>1
<1> HIDE DEF m
<1>3. v % m = v
  BY <1>2
<1>4. (v - m) % m = v
  BY <1>2
<1>5. QED
  BY <1>3, <1>4 DEF m

\* A datum of an exact type arrives as it was.
LEMMA ExactArrives ==
  ASSUME NEW t \in Exact, NEW v \in Datum[t]
  PROVE  PassedDatum(t, v) = [ok |-> TRUE, v |-> v]
<1>1. CASE t \in {"Boolean", "Int32", "Int64", "Guid"}
  BY <1>1 DEF PassedDatum, DecodeDatum, EncodeDatum, There
<1>2. CASE t = "UInt64"
  <2>1. v \in 0..(2 * Half - 1) /\ Half \in Nat \ {0}
    BY <1>2, ConstantsOK DEF Datum
  <2> DEFINE w == IF v < Half THEN v ELSE v - 2 * Half
  <2>2. EncodeDatum(t, v) = <<"integer", w>>
    BY <1>2 DEF EncodeDatum
  <2>3. w % (2 * Half) = v
    BY <2>1, Wraps
  <2> HIDE DEF w
  <2>4. PassedDatum(t, v) = DecodeDatum("UInt64", <<"integer", w>>)
    BY <1>2, <2>2 DEF PassedDatum
  <2>5. There(<<"integer", w>>) /\ <<"integer", w>>[2] = w
    BY DEF There
  <2>6. DecodeDatum("UInt64", <<"integer", w>>) = [ok |-> TRUE, v |-> w % (2 * Half)]
    BY <2>5 DEF DecodeDatum
  <2>7. QED
    BY <2>3, <2>4, <2>6
<1>3. QED
  BY <1>1, <1>2 DEF Exact

\* What the passage makes of v is a datum, and a second passage changes nothing.
Once(t, v) == /\ PassedDatum(t, v).ok \in BOOLEAN /\ PassedDatum(t, v).v \in Datum[t]
              /\ PassedDatum(t, PassedDatum(t, v).v) = PassedDatum(t, v)

\* How Once is shown: by what comes of v and of that.
LEMMA OnceIs ==
  ASSUME NEW t, NEW v, NEW o \in BOOLEAN, NEW w \in Datum[t],
         PassedDatum(t, v) = [ok |-> o, v |-> w],
         PassedDatum(t, w) = [ok |-> o, v |-> w]
  PROVE  Once(t, v)
<1>1. PassedDatum(t, v).v = w /\ PassedDatum(t, v).ok = o
  OBVIOUS
<1>2. QED
  BY <1>1 DEF Once

\* Numbers are well founded.
LEMMA LessIsWellFounded == IsWellFoundedOn({ss \in Nat \X Nat : ss[1] < ss[2]}, Nat)
  BY NatLessThanWellFounded, Zenon DEF OpToRel

\* A set of numbers has a least one.
LEMMA FirstOf ==
  ASSUME NEW B \in SUBSET Nat, B # {}
  PROVE  \E k \in B : \A m \in B : k <= m
<1> DEFINE Less == {ss \in Nat \X Nat : ss[1] < ss[2]}
<1>1. PICK k \in B : \A m \in B : <<m, k>> \notin Less
  <2>1. IsWellFoundedOn(Less, Nat)
    BY LessIsWellFounded
  <2> HIDE DEF Less
  <2> QED
    BY <2>1, WFMin
<1>2. \A m \in B : ~(m < k)
  BY <1>1
<1> QED
  BY <1>2

Real == {"Float", "Double"}

\* Bits are a number.
LEMMA BitsAreInt ==
  ASSUME NEW v \in Doubles
  PROVE  Bits(v) \in Int
<1>1. ASSUME NEW S, S \subseteq Doubles
      PROVE  Cardinality(S) \in Nat
  BY <1>1, ConstantsOK, FS_Subset, FS_CardinalityType
<1> DEFINE Place(w) == Cardinality({x \in Doubles : 0 <= x /\ x < w})
<1>2. Place(v) \in Nat /\ Place(-v) \in Nat /\ Cardinality({x \in Doubles : 0 <= x}) \in Nat
  BY <1>1
<1>3. Bits(v) = IF v < 0 THEN Place(-v) - Cardinality({x \in Doubles : 0 <= x}) ELSE Place(v)
  BY DEF Bits
<1> HIDE DEF Place
<1>4. QED
  BY <1>2, <1>3

\* Of some numbers one is the nearest to a given one.
LEMMA Nearest ==
  ASSUME NEW S \in SUBSET Int, 0 \in S, NEW b \in Int
  PROVE  \E x \in S : \A y \in S : Distance(x, b) <= Distance(y, b)
<1> DEFINE B == {Distance(y, b) : y \in S}
<1>1. \A y \in S : Distance(y, b) \in Nat
  BY DEF Distance
<1>2. B \in SUBSET Nat /\ B # {}
  BY <1>1
<1>3. PICK k \in B : \A m \in B : k <= m
  <2> HIDE DEF B
  <2>1. QED
    BY <1>2, FirstOf
<1>4. PICK x \in S : k = Distance(x, b)
  BY <1>3
<1>5. \A y \in S : Distance(x, b) <= Distance(y, b)
  BY <1>3, <1>4
<1>6. QED
  BY <1>5

\* A real is read without an error, as some real of its type.
LEMMA RealArrives ==
  ASSUME NEW t \in Real, NEW v \in Datum[t]
  PROVE  PassedDatum(t, v).ok = TRUE /\ PassedDatum(t, v).v \in Datum[t]
<1>1. /\ Datum["Float"] = Floats /\ Datum["Double"] = Doubles
      /\ Floats \subseteq Doubles /\ Doubles \subseteq Int /\ 0 \in Floats /\ One \in Int
      /\ \A x \in Doubles : Truncated(x) \in Doubles
  BY ConstantsOK DEF Datum
<1> DEFINE w == IF t = "Float" THEN v ELSE Truncated(v)
<1>2. w \in Doubles
  BY <1>1 DEF Real
<1>3. EncodeDatum(t, v) = <<"real", w>>
  BY DEF EncodeDatum, Real
<1> HIDE DEF w
<1>4. PassedDatum(t, v) = [ok |-> TRUE, v |-> Misread[t][w]]
  <2>1. There(<<"real", w>>) /\ <<"real", w>>[2] = w
    BY DEF There
  <2>2. DecodeDatum(t, <<"real", w>>) = [ok |-> TRUE, v |-> Misread[t][w]]
    BY <2>1 DEF DecodeDatum, Real
  <2>3. QED
    BY <1>3, <2>2 DEF PassedDatum
<1> DEFINE b == One * Bits(w)
<1>5. b \in Int
  BY <1>1, <1>2, BitsAreInt
<1>6. Misread[t][w] = CHOOSE x \in Datum[t] : \A y \in Datum[t] : Distance(x, b) <= Distance(y, b)
  BY <1>2 DEF Misread, Real
<1> HIDE DEF b
<1>7. \E x \in Datum[t] : \A y \in Datum[t] : Distance(x, b) <= Distance(y, b)
  <2>1. Datum[t] \in SUBSET Int /\ 0 \in Datum[t]
    BY <1>1 DEF Real
  <2>2. QED
    BY <1>5, <2>1, Nearest
<1>8. Misread[t][w] \in Datum[t]
  BY <1>6, <1>7, Zenon
<1>9. QED
  BY <1>4, <1>8

\* What a passage makes of a text where it is a datum.
CarriedName(x) == IF x = "binary" THEN "blank" ELSE Carried(x)

\* A text arrives as Carried and CarriedName say.
LEMMA TextsArrive ==
  ASSUME NEW x \in Text
  PROVE  /\ PassedDatum("String", x) = [ok |-> TRUE, v |-> Carried(x)]
         /\ PassedDatum("QualifiedName", x) = [ok |-> TRUE, v |-> CarriedName(x)]
         /\ CarriedName(x) \in Text /\ CarriedName(CarriedName(x)) = CarriedName(x)
<1>1. PassedDatum("String", x) = [ok |-> TRUE, v |-> DecodeText(EncodeText(x))]
  BY DEF PassedDatum, DecodeDatum, EncodeDatum
<1>2. PassedDatum("QualifiedName", x) =
        LET j == EncodeText(x) IN [ok |-> TRUE, v |-> IF There(j) THEN j[2] ELSE "blank"]
  BY DEF PassedDatum, DecodeDatum, EncodeDatum
<1>3. IF There(EncodeText(x)) THEN EncodeText(x)[2] = CarriedName(x) ELSE CarriedName(x) = "blank"
  BY DEF EncodeText, There, Missing, Text, Carried, CarriedName
<1>4. CarriedName(x) \in Text /\ CarriedName(CarriedName(x)) = CarriedName(x)
  BY DEF Text, Carried, CarriedName
<1>5. QED
  BY <1>1, <1>2, <1>3, <1>4, TextOnce

\* Texts, extension objects and data values are spoilt once.
LEMMA SpecialOnce ==
  ASSUME NEW t \in {"String", "QualifiedName", "ExtensionObject", "DataValue"}, NEW v \in Datum[t]
  PROVE  Once(t, v)
<1>1. CASE t = "String"
  <2>1. Datum[t] = Text
    BY <1>1 DEF Datum
  <2>2. Carried(v) \in Text /\ Carried(Carried(v)) = Carried(v)
    BY <2>1, TextOnce
  <2>3. QED
    BY <1>1, <2>1, <2>2, TextsArrive, OnceIs
<1>2. CASE t = "QualifiedName"
  <2>1. Datum[t] = Text
    BY <1>2 DEF Datum
  <2>2. CarriedName(v) \in Text /\ CarriedName(CarriedName(v)) = CarriedName(v)
    BY <2>1, TextsArrive
  <2>3. QED
    BY <1>2, <2>1, <2>2, TextsArrive, OnceIs
<1>3. CASE t = "ExtensionObject"
  <2>1. Datum[t] = {"nobody", "typed", "body", "hollow"}
    BY <1>3 DEF Datum
  <2>2. \A x \in {"nobody", "typed", "body", "hollow"} :
          PassedDatum("ExtensionObject", x) = DecodeExtensionObject(<<"object", x>>)
    BY DEF PassedDatum, DecodeDatum, EncodeDatum
  <2>3. /\ \A x \in {"nobody", "typed"} :
             DecodeExtensionObject(<<"object", x>>) = [ok |-> TRUE, v |-> "nobody"]
        /\ \A x \in {"body", "hollow"} :
             DecodeExtensionObject(<<"object", x>>) = [ok |-> FALSE, v |-> "hollow"]
    <3>1. ASSUME NEW x PROVE <<"object", x>>[2] = x
      OBVIOUS
    <3>2. ASSUME NEW x \in {"nobody", "typed"}
          PROVE  DecodeExtensionObject(<<"object", x>>) = [ok |-> TRUE, v |-> "nobody"]
      BY <3>1 DEF DecodeExtensionObject
    <3>3. ASSUME NEW x \in {"body", "hollow"}
          PROVE  DecodeExtensionObject(<<"object", x>>) = [ok |-> FALSE, v |-> "hollow"]
      <4>1. (<<"object", x>>[2] \in {"nobody", "typed"}) = FALSE
        BY <3>1
      <4>2. QED
        BY <4>1 DEF DecodeExtensionObject
    <3>4. QED
      BY <3>2, <3>3
  <2>4. /\ \A x \in {"nobody", "typed"} : PassedDatum(t, x) = [ok |-> TRUE, v |-> "nobody"]
        /\ \A x \in {"body", "hollow"} : PassedDatum(t, x) = [ok |-> FALSE, v |-> "hollow"]
    BY <1>3, <2>2, <2>3
  <2>5. QED
    BY <2>1, <2>4, OnceIs
<1>4. CASE t = "DataValue"
  <2>1. Datum[t] = {"plain", "stamped", "zeroed"}
    BY <1>4 DEF Datum
  <2>2. \A x \in {"plain", "stamped", "zeroed"} :
          PassedDatum("DataValue", x) = DecodeDataValue(<<"object", x>>)
    BY DEF PassedDatum, DecodeDatum, EncodeDatum
  <2>3. \A x \in {"plain", "stamped", "zeroed"} : PassedDatum("DataValue", x) =
          [ok |-> x = "plain", v |-> IF x \in {"stamped", "zeroed"} THEN "zeroed" ELSE "plain"]
    BY <2>2 DEF DecodeDataValue
  <2>4. /\ PassedDatum(t, "plain") = [ok |-> TRUE, v |-> "plain"]
        /\ \A x \in {"stamped", "zeroed"} : PassedDatum(t, x) = [ok |-> FALSE, v |-> "zeroed"]
    BY <1>4, <2>3
  <2>5. QED
    BY <2>1, <2>4, OnceIs
<1>5. QED
  BY <1>1, <1>2, <1>3, <1>4

\* What a passage makes of a datum that is no real is of its type, and a second
\* passage makes nothing else of it.
LEMMA DatumOnce ==
  ASSUME NEW t \in Type \ (Real \cup {"Structure"}), NEW v \in Datum[t]
  PROVE  Once(t, v)
<1>1. CASE t \in Exact
  <2>1. PassedDatum(t, v) = [ok |-> TRUE, v |-> v]
    BY <1>1, ExactArrives
  <2>2. QED
    BY <2>1, OnceIs
<1>2. CASE t \notin Exact
  <2>1. t \in {"String", "QualifiedName", "ExtensionObject", "DataValue"}
    BY <1>2 DEF Exact, Type, Real
  <2>2. QED
    BY <2>1, SpecialOnce
<1>3. QED
  BY <1>1, <1>2

-----------------------------------------------------------------------------
(* What one passage does to a value *)

\* Whether the i-th datum of v is read without an error.
Sound(v, i) == PassedDatum(v.type, v.data[i]).ok

\* In an array what follows the first datum that is an error is zeroed, and the
\* dimensions are kept if none is.
PassedArray(v) ==
  LET ok == \A i \in DOMAIN v.data : Sound(v, i) IN
  Got(ok, Array(v.type, IF ok THEN v.dims ELSE <<>>,
                [i \in DOMAIN v.data |-> IF \A k \in 1..(i - 1) : Sound(v, k)
                                           THEN PassedDatum(v.type, v.data[i]).v ELSE Zero(v.type)]))

Signed(x) == IF x < Half THEN x ELSE x - 2 * Half

\* What one passage makes of a value whose JSON names its type.
Passed(v) ==
  IF v.type \in {"none", "Structure"} THEN Got(FALSE, NoValue)
  ELSE IF v.array                     THEN PassedArray(v)
  ELSE IF v.type = "UInt64"           THEN Got(TRUE, Scalar("Int64", Signed(v.data[1])))
  ELSE Got(PassedDatum(v.type, v.data[1]).ok, Scalar(v.type, PassedDatum(v.type, v.data[1]).v))

\* The parts of a value.
LEMMA VariantIs ==
  ASSUME NEW v, VariantOK(v), v.type # "none"
  PROVE  /\ v.type \in Type /\ v.array \in BOOLEAN
         /\ v.dims \in Seq(Nat) /\ v.data \in Seq(Datum[v.type])
         /\ v = [type |-> v.type, array |-> v.array, dims |-> v.dims, data |-> v.data]
         /\ ~v.array => v.dims = <<>> /\ Len(v.data) = 1 /\ v.data = <<v.data[1]>>
                        /\ v.data[1] \in Datum[v.type]
<1>1. PICK t \in Type :
        /\ v \in [type : {t}, array : BOOLEAN, dims : Seq(Nat), data : Seq(Datum[t])]
        /\ ~v.array => v.dims = <<>> /\ Len(v.data) = 1
  BY DEF VariantOK, NoValue
<1>2. v.type = t
  BY <1>1
<1>3. QED
  BY <1>1, <1>2

\* A sequence of one.
LEMMA OneSeq ==
  ASSUME NEW D, NEW y \in D
  PROVE  <<y>> \in Seq(D) /\ Len(<<y>>) = 1 /\ <<y>>[1] = y /\ <<y>> # <<>>
OBVIOUS

\* There is one value of no type.
LEMMA NoneIs ==
  ASSUME NEW v, VariantOK(v), v.type = "none"
  PROVE  v = NoValue
BY DEF VariantOK, Type

\* A value whose JSON names its type is read in one way.
LEMMA PassesAs ==
  ASSUME NEW v, VariantOK(v), ~Untyped(v)
  PROVE  DecodeValue(EncodeValue(v)) = {Passed(v)}
<1>1. CASE v.type = "none"
  BY <1>1 DEF EncodeValue, DecodeValue, Passed
<1>2. CASE v.type # "none"
  <2> DEFINE t == v.type  j == EncodeVariant(v)
  <2>1. /\ t \in Type /\ v.array \in BOOLEAN /\ v.data \in Seq(Datum[t])
        /\ ~v.array => Len(v.data) = 1 /\ v.data[1] \in Datum[t]
    BY <1>2, VariantIs
  <2>2. v.data # <<>> /\ ~(v.array /\ t = "Structure")
    BY <2>1 DEF Untyped
  <2>3. /\ j.type = IF t = "Structure" THEN "unsupported" ELSE t
        /\ j.length = IF v.array THEN Len(v.data) ELSE 0
        /\ j.dims = v.dims
        /\ j.data = [i \in DOMAIN v.data |-> EncodeDatum(t, v.data[i])]
    BY <2>2 DEF EncodeVariant
  <2> HIDE DEF j
  <2>4. j.type # "object" /\ j.type # "wild"
    BY <2>1, <2>3 DEF Type
  <2>5. DecodeValue(EncodeValue(v)) = {DecodeAs(j.type, j)}
    <3>1. EncodeValue(v) = <<"object", j>>
      BY <1>2 DEF EncodeValue, j
    <3>2. DecodeValue(<<"object", j>>) = {DecodeAs(s, j) : s \in {j.type}}
      BY <2>4 DEF DecodeValue
    <3>3. {DecodeAs(s, j) : s \in {j.type}} = {DecodeAs(j.type, j)}
      OBVIOUS
    <3>4. QED
      BY <3>1, <3>2, <3>3
  <2>6. CASE t = "Structure"
    BY <2>1, <2>3, <2>5, <2>6 DEF DecodeAs, Passed
  <2>7. CASE t # "Structure"
    <3>1. j.type = t /\ j.data # <<>> /\ j.data[1] = EncodeDatum(t, v.data[1])
      BY <2>1, <2>2, <2>3, <2>7
    <3>2. t = "ExtensionObject" => There(j.data[1])
      BY <3>1 DEF There, EncodeDatum
    <3>3. DecodeAs(t, j) = IF j.length = 0 THEN DecodeScalar(t, j.data[1]) ELSE DecodeArray(t, j)
      BY <2>1, <3>1, <3>2, <2>4 DEF DecodeAs, Type
    <3>4. CASE v.array
      <4>1. j.length # 0
        BY <2>1, <2>2, <2>3, <3>4
      <4>2. DOMAIN j.data = DOMAIN v.data
            /\ \A i \in DOMAIN v.data : j.data[i] = EncodeDatum(t, v.data[i])
        BY <2>3
      <4>3. [i \in DOMAIN j.data |-> DecodeDatum(t, j.data[i])]
              = [i \in DOMAIN v.data |-> PassedDatum(t, v.data[i])]
        BY <4>2 DEF PassedDatum
      <4>4. DecodeArray(t, j) = PassedArray(v)
        <5> DEFINE d == [i \in DOMAIN v.data |-> PassedDatum(t, v.data[i])]
                   ok == \A i \in DOMAIN v.data : Sound(v, i)
                   w == [i \in DOMAIN v.data |-> IF \A k \in 1..(i - 1) : Sound(v, k)
                                                   THEN PassedDatum(t, v.data[i]).v ELSE Zero(t)]
        <5>1. DOMAIN v.data = 1..Len(v.data)
          BY <2>1
        <5>2. \A i \in DOMAIN v.data : d[i].ok <=> Sound(v, i)
          BY DEF Sound
        <5>3. (\A i \in DOMAIN d : d[i].ok) <=> ok
          BY <5>2
        <5>4. \A i \in DOMAIN v.data : (\A k \in 1..(i - 1) : d[k].ok) <=> (\A k \in 1..(i - 1) : Sound(v, k))
          <6>1. \A i \in DOMAIN v.data : \A k \in 1..(i - 1) : k \in DOMAIN v.data
            BY <2>1, <5>1
          <6>2. QED
            BY <5>2, <6>1
        <5>5. [i \in DOMAIN d |-> IF \A k \in 1..(i - 1) : d[k].ok THEN d[i].v ELSE Zero(t)] = w
          BY <5>4
        <5>6. DecodeArray(t, j) = Got(\A i \in DOMAIN d : d[i].ok,
                                      Array(t, IF \A i \in DOMAIN d : d[i].ok THEN j.dims ELSE <<>>,
                                        [i \in DOMAIN d |-> IF \A k \in 1..(i - 1) : d[k].ok
                                                              THEN d[i].v ELSE Zero(t)]))
          BY <4>3 DEF DecodeArray
        <5>7. PassedArray(v) = Got(ok, Array(t, IF ok THEN v.dims ELSE <<>>, w))
          BY DEF PassedArray
        <5>8. QED
          BY <2>3, <5>3, <5>5, <5>6, <5>7
      <4>5. QED
        BY <1>2, <2>5, <2>7, <3>1, <3>3, <3>4, <4>1, <4>4 DEF Passed
    <3>5. CASE ~v.array
      <4>1. DecodeAs(t, j) = DecodeScalar(t, EncodeDatum(t, v.data[1]))
        BY <2>3, <3>1, <3>3, <3>5
      <4>2. CASE t = "UInt64"
        <5>1. PassedDatum(t, v.data[1]) = [ok |-> TRUE, v |-> v.data[1]]
          BY <2>1, <3>5, <4>2, ExactArrives DEF Exact
        <5>2. /\ DecodeDatum("UInt64", EncodeDatum(t, v.data[1])).ok = TRUE
              /\ DecodeDatum("UInt64", EncodeDatum(t, v.data[1])).v = v.data[1]
          BY <4>2, <5>1 DEF PassedDatum
        <5>3. DecodeScalar("UInt64", EncodeDatum(t, v.data[1])) = Got(TRUE, Scalar("Int64", Signed(v.data[1])))
          BY <5>2 DEF DecodeScalar, Signed
        <5>4. Passed(v) = Got(TRUE, Scalar("Int64", Signed(v.data[1])))
          BY <3>5, <4>2 DEF Passed
        <5>5. QED
          BY <2>5, <3>1, <4>1, <4>2, <5>3, <5>4
      <4>3. CASE t # "UInt64"
        BY <1>2, <2>5, <2>7, <3>1, <3>5, <4>1, <4>3 DEF DecodeScalar, Passed, PassedDatum
      <4>4. QED
        BY <4>2, <4>3
    <3>6. QED
      BY <2>1, <3>4, <3>5
  <2>8. QED
    BY <2>6, <2>7
<1>3. QED
  BY <1>1, <1>2

\* What UA_Array_new leaves is a datum.
LEMMA ZeroIs ==
  ASSUME NEW t \in Type
  PROVE  Zero(t) \in Datum[t]
BY ConstantsOK DEF Type, Zero, Datum, Text

\* An array of other things than reals is an array of the same length after the
\* passage, and arrives in the same way again: the first error is where it was, and
\* what follows is zero.
LEMMA ArrayOnce ==
  ASSUME NEW v, VariantOK(v), v.type \notin Real \cup {"none"}, v.array, ~Untyped(v)
  PROVE  LET p == PassedArray(v) IN
         /\ p.crash = FALSE /\ p.ok \in BOOLEAN
         /\ VariantOK(p.value) /\ ~Untyped(p.value)
         /\ p.value.type = v.type /\ p.value.array
         /\ PassedArray(p.value) = p
<1> DEFINE t  == v.type
           n  == Len(v.data)
           ok == \A i \in DOMAIN v.data : Sound(v, i)
           e  == [i \in DOMAIN v.data |-> IF \A k \in 1..(i - 1) : Sound(v, k)
                                            THEN PassedDatum(t, v.data[i]).v ELSE Zero(t)]
           w  == Array(t, IF ok THEN v.dims ELSE <<>>, e)
<1>1. /\ t \in Type \ (Real \cup {"Structure"}) /\ v.dims \in Seq(Nat)
      /\ n \in Nat /\ DOMAIN v.data = 1..n /\ \A i \in 1..n : v.data[i] \in Datum[t]
      /\ v.data # <<>>
  BY VariantIs DEF Untyped
<1>2. PassedArray(v) = Got(ok, w)
  BY DEF PassedArray
<1>3. \A i \in 1..n : Once(t, v.data[i])
  BY <1>1, DatumOnce
<1>4. \A i \in 1..n : e[i] \in Datum[t]
  BY <1>1, <1>3, ZeroIs DEF Once
<1>5. DOMAIN e = 1..n /\ e \in Seq(Datum[t]) /\ e # <<>>
  <2>1. DOMAIN e = 1..n /\ e = [i \in 1..n |-> e[i]]
    BY <1>1
  <2>2. n # 0
    BY <1>1
  <2> HIDE DEF e
  <2>3. e \in [1..n -> Datum[t]]
    BY <1>4, <2>1
  <2>4. e \in Seq(Datum[t]) /\ Len(e) = n
    BY <1>1, <2>1, <2>3
  <2>5. QED
    BY <2>1, <2>2, <2>4
<1>6. /\ w.type = t /\ w.array = TRUE /\ w.data = e
      /\ w.dims = IF ok THEN v.dims ELSE <<>>
  BY DEF Array
<1>7. VariantOK(w) /\ ~Untyped(w)
  <2>1. w.dims \in Seq(Nat)
    <3> DEFINE ds == w.dims  es == v.dims
    <3>1. ds = <<>> \/ ds = es
      BY <1>6
    <3>2. es \in Seq(Nat) /\ <<>> \in Seq(Nat)
      BY <1>1
    <3> HIDE DEF w, ds, es
    <3>3. ds \in Seq(Nat)
      BY <3>1, <3>2
    <3>4. QED
      BY <3>3 DEF ds
  <2>2. w \in [type : {t}, array : BOOLEAN, dims : Seq(Nat), data : Seq(Datum[t])]
    <3>1. w = [type |-> t, array |-> TRUE, dims |-> w.dims, data |-> e]
      BY DEF Array
    <3> DEFINE ds == w.dims
    <3>2. ds \in Seq(Nat)
      BY <2>1
    <3>3. w = [type |-> t, array |-> TRUE, dims |-> ds, data |-> e]
      BY <3>1
    <3> HIDE DEF w, e, ds
    <3>4. QED
      BY <1>5, <3>2, <3>3
  <2>3. QED
    BY <1>1, <1>5, <1>6, <2>2 DEF VariantOK, Untyped
<1>8. ASSUME NEW i \in 1..n, \A k \in 1..(i - 1) : Sound(v, k)
      PROVE  PassedDatum(t, e[i]) = PassedDatum(t, v.data[i])
  BY <1>1, <1>3, <1>8 DEF Once
<1>9. \A i \in 1..n : (\A k \in 1..(i - 1) : Sound(v, k)) => (Sound(w, i) <=> Sound(v, i))
  BY <1>6, <1>8 DEF Sound
<1> HIDE DEF w, e
<1>10. \A i \in 1..n : (\A k \in 1..(i - 1) : Sound(v, k)) <=> (\A k \in 1..(i - 1) : Sound(w, k))
  <2>1. SUFFICES ASSUME NEW i \in 1..n,
                        \/ (\A k \in 1..(i - 1) : Sound(v, k)) /\ ~(\A k \in 1..(i - 1) : Sound(w, k))
                        \/ ~(\A k \in 1..(i - 1) : Sound(v, k)) /\ (\A k \in 1..(i - 1) : Sound(w, k))
                 PROVE  FALSE
    OBVIOUS
  <2>2. \A k \in 1..(i - 1) : k \in 1..n /\ \A m \in 1..(k - 1) : m \in 1..(i - 1)
    BY <1>1
  <2>3. CASE \A k \in 1..(i - 1) : Sound(v, k)
    BY <1>9, <2>1, <2>2, <2>3
  <2>4. CASE ~(\A k \in 1..(i - 1) : Sound(v, k)) /\ (\A k \in 1..(i - 1) : Sound(w, k))
    <3> DEFINE B == {k \in 1..(i - 1) : ~Sound(v, k)}
    <3>1. PICK k \in B : \A m \in B : k <= m
      <4>1. B \subseteq Nat /\ B # {}
        BY <2>4
      <4>2. QED
        BY <4>1, FirstOf
    <3>2. \A m \in 1..(k - 1) : Sound(v, m)
      BY <3>1
    <3>3. QED
      BY <1>9, <2>2, <2>4, <3>1, <3>2
  <2>5. QED
    BY <2>1, <2>3, <2>4
<1>11. (\A i \in 1..n : Sound(w, i)) <=> ok
  <2>1. ASSUME ok PROVE \A i \in 1..n : Sound(w, i)
    BY <1>1, <1>9, <2>1
  <2>2. ASSUME \A i \in 1..n : Sound(w, i) PROVE ok
    <3>1. \A i \in 1..n : \A k \in 1..(i - 1) : Sound(v, k)
      BY <1>1, <1>10, <2>2
    <3>2. QED
      BY <1>1, <1>9, <2>2, <3>1
  <2>3. QED
    BY <2>1, <2>2
<1>12. PassedArray(w) = Got(ok, w)
  <2> DEFINE f == [i \in 1..n |-> IF \A k \in 1..(i - 1) : Sound(w, k)
                                    THEN PassedDatum(t, e[i]).v ELSE Zero(t)]
  <2>1. PassedArray(w) = Got(ok, Array(t, IF ok THEN w.dims ELSE <<>>, f))
    BY <1>5, <1>6, <1>11 DEF PassedArray
  <2>2. \A i \in 1..n : f[i] = e[i]
    BY <1>1, <1>8, <1>10 DEF e
  <2>3. f = e
    BY <1>1, <2>2 DEF e
  <2>4. (IF ok THEN w.dims ELSE <<>>) = (IF ok THEN v.dims ELSE <<>>)
    BY <1>6
  <2>5. QED
    BY <2>1, <2>3, <2>4 DEF w
<1>13. QED
  BY <1>2, <1>6, <1>7, <1>12 DEF Got

\* A scalar of a datum is a value.
LEMMA ScalarIs ==
  ASSUME NEW s \in Type, NEW y \in Datum[s]
  PROVE  /\ VariantOK(Scalar(s, y)) /\ ~Untyped(Scalar(s, y))
         /\ Scalar(s, y).type = s /\ Scalar(s, y).array = FALSE
         /\ Scalar(s, y).data[1] = y
<1>1. Scalar(s, y).data = <<y>> /\ <<y>> \in Seq(Datum[s]) /\ Len(<<y>>) = 1
  BY OneSeq DEF Scalar
<1>2. Scalar(s, y) = [type |-> s, array |-> FALSE, dims |-> <<>>, data |-> <<y>>] /\ <<>> \in Seq(Nat)
  BY DEF Scalar
<1>3. Scalar(s, y) \in [type : {s}, array : BOOLEAN, dims : Seq(Nat), data : Seq(Datum[s])]
  BY <1>1, <1>2
<1>4. VariantOK(Scalar(s, y))
  BY <1>1, <1>2, <1>3 DEF VariantOK
<1>5. QED
  BY <1>1, <1>2, <1>4 DEF Untyped

\* What a passage makes of a value without reals is a value again, and a second
\* passage makes nothing else of it: what is an error once is one again.
LEMMA OthersOnce ==
  ASSUME NEW v, VariantOK(v), ~Untyped(v), v.type \notin Real
  PROVE  LET p == Passed(v) IN
         /\ p.crash = FALSE /\ p.ok \in BOOLEAN
         /\ VariantOK(p.value) /\ ~Untyped(p.value)
         /\ Passed(p.value) = p
         /\ p.ok => /\ p.value.type # "none" /\ v.type # "none"
                    /\ p.value.array = v.array
                    /\ p.value.type = v.type \/ (IsScalar(v) /\ v.type = "UInt64")
<1>1. CASE v.type \in {"none", "Structure"}
  <2>1. Passed(v) = Got(FALSE, NoValue) /\ Passed(NoValue) = Got(FALSE, NoValue)
    BY <1>1 DEF Passed, NoValue
  <2>2. VariantOK(NoValue) /\ ~Untyped(NoValue)
    BY DEF VariantOK, NoValue, Untyped
  <2>3. QED
    BY <2>1, <2>2 DEF Got
<1>2. CASE v.type \notin {"none", "Structure"} /\ v.array
  <2>1. Passed(v) = PassedArray(v)
    BY <1>2 DEF Passed
  <2> DEFINE p == PassedArray(v)
  <2>2. /\ p.crash = FALSE /\ p.ok \in BOOLEAN
        /\ VariantOK(p.value) /\ ~Untyped(p.value)
        /\ p.value.type = v.type /\ p.value.array
        /\ PassedArray(p.value) = p
    BY <1>2, ArrayOnce
  <2>3. p.value.array = v.array
    BY <1>2, <2>2, VariantIs
  <2>4. Passed(p.value) = p
    BY <1>2, <2>2 DEF Passed
  <2> HIDE DEF p
  <2>5. QED
    BY <1>2, <2>1, <2>2, <2>3, <2>4 DEF p
<1>3. CASE v.type \notin {"none", "Structure"} /\ ~v.array
  <2> DEFINE t == v.type  x == v.data[1]
  <2>1. /\ t \in Type \ (Real \cup {"Structure"}) /\ x \in Datum[t] /\ v.array = FALSE
    BY <1>3, VariantIs
  <2>3. CASE t = "UInt64"
    <3> DEFINE w == Scalar("Int64", Signed(x))
    <3>1. Passed(v) = Got(TRUE, w)
      BY <2>1, <2>3 DEF Passed
    <3>2. Signed(x) \in Datum["Int64"] /\ "Int64" \in Type
      <4>1. x \in 0..(2 * Half - 1) /\ Half \in Nat \ {0}
        BY <2>1, <2>3, ConstantsOK DEF Datum
      <4>2. Datum["Int64"] = (-Half)..(Half - 1)
        BY DEF Datum
      <4>3. QED
        BY <4>1, <4>2 DEF Signed, Type
    <3>3. PassedDatum("Int64", Signed(x)) = [ok |-> TRUE, v |-> Signed(x)]
      BY <3>2, ExactArrives DEF Exact
    <3>4. /\ VariantOK(w) /\ ~Untyped(w) /\ w.type = "Int64" /\ w.array = FALSE
          /\ w.data[1] = Signed(x)
      BY <3>2, ScalarIs
    <3> HIDE DEF w
    <3>5. Passed(w) = Got(PassedDatum("Int64", Signed(x)).ok, Scalar("Int64", PassedDatum("Int64", Signed(x)).v))
      BY <3>4 DEF Passed
    <3>6. Passed(w) = Got(TRUE, w)
      <4>1. PassedDatum("Int64", Signed(x)).ok = TRUE /\ PassedDatum("Int64", Signed(x)).v = Signed(x)
        BY <3>3
      <4>2. QED
        BY <3>5, <4>1 DEF w, Got
    <3>7. Passed(v).crash = FALSE /\ Passed(v).ok = TRUE /\ Passed(v).value = w
      BY <3>1 DEF Got
    <3>8. IsScalar(v) /\ v.type # "none" /\ w.array = v.array
      BY <1>3, <2>1, <3>4 DEF IsScalar
    <3>9. QED
      BY <2>3, <3>1, <3>4, <3>6, <3>7, <3>8
  <2>4. CASE t # "UInt64"
    <3> DEFINE r == PassedDatum(t, x)  w == Scalar(t, r.v)
    <3>1. Passed(v) = Got(r.ok, w)
      BY <1>3, <2>1, <2>4 DEF Passed
    <3>2. Once(t, x)
      BY <2>1, DatumOnce
    <3>3. r.ok \in BOOLEAN /\ r.v \in Datum[t] /\ PassedDatum(t, r.v) = r
      BY <3>2 DEF Once
    <3> HIDE DEF r
    <3>4. VariantOK(w) /\ ~Untyped(w) /\ w.type = t /\ w.array = FALSE /\ w.data[1] = r.v
      <4>1. r.v \in Datum[t] /\ t \in Type
        BY <2>1, <3>3
      <4> DEFINE y == r.v
      <4>2. y \in Datum[t] /\ t \in Type
        BY <4>1
      <4> HIDE DEF y
      <4>3. /\ VariantOK(Scalar(t, y)) /\ ~Untyped(Scalar(t, y))
            /\ Scalar(t, y).type = t /\ Scalar(t, y).array = FALSE
            /\ Scalar(t, y).data[1] = y
        BY <4>2, ScalarIs
      <4>4. QED
        BY <4>3 DEF y
    <3> HIDE DEF w
    <3>5. Passed(w) = Got(r.ok, w)
      <4>1. Passed(w) = Got(PassedDatum(t, r.v).ok, Scalar(t, PassedDatum(t, r.v).v))
        BY <1>3, <2>1, <2>4, <3>4 DEF Passed
      <4>2. QED
        BY <3>3, <4>1 DEF w
    <3>6. Passed(v).crash = FALSE /\ Passed(v).ok = r.ok /\ Passed(v).value = w
      BY <3>1 DEF Got
    <3>7. v.type # "none" /\ w.array = v.array
      BY <1>3, <2>1, <3>4
    <3>8. QED
      BY <3>1, <3>3, <3>4, <3>5, <3>6, <3>7
  <2>5. QED
    BY <2>3, <2>4
<1>4. QED
  BY <1>1, <1>2, <1>3, VariantIs

\* The numbers aside, a value is the same without its reals.
LEMMA RealsAside ==
  ASSUME NEW v, VariantOK(v)
  PROVE  LET w == WithoutReals(v) IN
         /\ w.type = v.type /\ w.array = v.array /\ (IsScalar(w) <=> IsScalar(v))
         /\ v.type \notin Real => w = v
<1>1. CASE v.type \notin Real
  BY <1>1 DEF WithoutReals, Real
<1>2. CASE v.type \in Real
  <2>1. v = [type |-> v.type, array |-> v.array, dims |-> v.dims, data |-> v.data]
    BY <1>2, VariantIs DEF Real
  <2>2. WithoutReals(v) = [v EXCEPT !.data = [i \in DOMAIN v.data |-> 0]]
    BY <1>2 DEF WithoutReals, Real
  <2>3. WithoutReals(v).type = v.type /\ WithoutReals(v).array = v.array
    BY <2>1, <2>2
  <2>4. QED
    BY <1>2, <2>3 DEF IsScalar
<1>3. QED
  BY <1>1, <1>2

\* A real, or an array of them, is one again after a passage: only the numbers differ.
LEMMA RealsPass ==
  ASSUME NEW v, VariantOK(v), ~Untyped(v), v.type \in Real
  PROVE  LET p == Passed(v) IN
         /\ p.crash = FALSE /\ p.ok = TRUE
         /\ VariantOK(p.value) /\ ~Untyped(p.value)
         /\ p.value.type = v.type /\ p.value.array = v.array
         /\ WithoutReals(p.value) = WithoutReals(v)
<1> DEFINE t == v.type  n == Len(v.data)
<1>1. /\ t \in Type /\ t \notin {"none", "Structure", "UInt64"} /\ v.array \in BOOLEAN
      /\ v.dims \in Seq(Nat) /\ v.data \in Seq(Datum[t])
      /\ v = [type |-> t, array |-> v.array, dims |-> v.dims, data |-> v.data]
      /\ ~v.array => v.dims = <<>> /\ n = 1 /\ v.data[1] \in Datum[t]
  BY VariantIs DEF Real
<1>2. n \in Nat /\ DOMAIN v.data = 1..n /\ \A i \in 1..n : v.data[i] \in Datum[t]
  BY <1>1
<1>3. \A i \in 1..n : Sound(v, i) /\ PassedDatum(t, v.data[i]).v \in Datum[t]
  BY <1>2, RealArrives DEF Sound
<1>4. PICK e : /\ e \in [1..n -> Datum[t]]
               /\ Passed(v) = Got(TRUE, [type |-> t, array |-> v.array, dims |-> v.dims, data |-> e])
  <2>1. CASE v.array
    <3> DEFINE f == [i \in DOMAIN v.data |-> IF \A k \in 1..(i - 1) : Sound(v, k)
                                               THEN PassedDatum(t, v.data[i]).v ELSE Zero(t)]
    <3>1. \A i \in DOMAIN v.data : Sound(v, i)
      BY <1>2, <1>3
    <3>2. PassedArray(v) = Got(TRUE, Array(t, v.dims, f))
      BY <3>1 DEF PassedArray
    <3>3. \A i \in 1..n : f[i] \in Datum[t]
      BY <1>1, <1>2, <1>3, ZeroIs
    <3>4. f \in [1..n -> Datum[t]]
      BY <1>2, <3>3
    <3>5. Passed(v) = PassedArray(v) /\ v.array = TRUE
      BY <1>1, <2>1 DEF Passed
    <3> HIDE DEF f
    <3>6. QED
      BY <3>2, <3>4, <3>5 DEF Array
  <2>2. CASE ~v.array
    <3> DEFINE y == PassedDatum(t, v.data[1]).v
    <3>1. PassedDatum(t, v.data[1]).ok = TRUE /\ y \in Datum[t]
      BY <1>1, <2>2, RealArrives
    <3>2. Passed(v) = Got(TRUE, Scalar(t, y))
      BY <1>1, <2>2, <3>1 DEF Passed
    <3> HIDE DEF y
    <3>3. <<y>> \in [1..n -> Datum[t]]
      <4>1. n = 1 /\ y \in Datum[t]
        BY <1>1, <2>2, <3>1 DEF y
      <4> HIDE DEF n
      <4>2. QED
        BY <4>1
    <3>4. Passed(v) = Got(TRUE, [type |-> t, array |-> v.array, dims |-> v.dims, data |-> <<y>>])
      BY <1>1, <2>2, <3>2 DEF Scalar
    <3>5. QED
      BY <3>3, <3>4
  <2>3. QED
    BY <2>1, <2>2
<1> DEFINE w == [type |-> t, array |-> v.array, dims |-> v.dims, data |-> e]
<1>5. e \in Seq(Datum[t]) /\ Len(e) = n /\ DOMAIN e = DOMAIN v.data
  BY <1>2, <1>4
<1>6. VariantOK(w)
  <2>1. w \in [type : {t}, array : BOOLEAN, dims : Seq(Nat), data : Seq(Datum[t])]
    BY <1>1, <1>5
  <2>2. ~w.array => w.dims = <<>> /\ Len(w.data) = 1
    BY <1>1, <1>5
  <2>3. QED
    BY <1>1, <2>1, <2>2 DEF VariantOK
<1>7. ~Untyped(w)
  <2>1. v.array => v.data # <<>>
    BY DEF Untyped
  <2>2. v.array => n # 0
    BY <1>1, <2>1
  <2>3. QED
    BY <1>1, <1>5, <2>2 DEF Untyped
<1>8. WithoutReals(w) = WithoutReals(v)
  <2> DEFINE z == [i \in DOMAIN v.data |-> 0]
  <2>1. WithoutReals(v) = [v EXCEPT !.data = z]
    BY DEF WithoutReals, Real
  <2>2. WithoutReals(w) = [w EXCEPT !.data = z]
    BY <1>5 DEF WithoutReals, Real
  <2> HIDE DEF z
  <2>3. QED
    BY <1>1, <2>1, <2>2
<1>9. QED
  BY <1>4, <1>6, <1>7, <1>8 DEF Got

\* What a passage leaves of a value, but for its reals.
Blurred(v) == Got(Passed(v).ok, WithoutReals(Passed(v).value))

\* What a passage makes of a value is a value again, and a second passage makes
\* nothing else of it, but for its reals.
LEMMA PassedOnce ==
  ASSUME NEW v, VariantOK(v), ~Untyped(v)
  PROVE  LET p == Passed(v) IN
         /\ p.crash = FALSE /\ p.ok \in BOOLEAN
         /\ VariantOK(p.value) /\ ~Untyped(p.value)
         /\ Blurred(p.value) = Blurred(v)
         /\ p.ok => /\ p.value.type # "none" /\ v.type # "none"
                    /\ p.value.array = v.array
                    /\ p.value.type = v.type \/ (IsScalar(v) /\ v.type = "UInt64")
<1>1. CASE v.type \notin Real
  BY <1>1, OthersOnce DEF Blurred
<1>2. CASE v.type \in Real
  <2> DEFINE p == Passed(v)
  <2>1. /\ p.crash = FALSE /\ p.ok = TRUE
        /\ VariantOK(p.value) /\ ~Untyped(p.value)
        /\ p.value.type = v.type /\ p.value.array = v.array
        /\ WithoutReals(p.value) = WithoutReals(v)
    BY <1>2, RealsPass
  <2> DEFINE w == p.value
  <2>2. Passed(w).ok = TRUE /\ WithoutReals(Passed(w).value) = WithoutReals(w)
    <3>1. VariantOK(w) /\ ~Untyped(w) /\ w.type \in Real
      BY <1>2, <2>1
    <3> HIDE DEF w
    <3>2. QED
      BY <3>1, RealsPass
  <2>3. Blurred(w) = Blurred(v)
    BY <2>1, <2>2 DEF Blurred
  <2>4. v.type # "none"
    BY <1>2 DEF Real
  <2> HIDE DEF p
  <2>5. QED
    BY <2>1, <2>3, <2>4 DEF p
<1>3. QED
  BY <1>1, <1>2

\* A portable value arrives as CarriedValue says.
LEMMA PortablePassed ==
  ASSUME NEW v, VariantOK(v), Portable(v)
  PROVE  ~Untyped(v) /\ Passed(v).value = CarriedValue(v)
<1>1. CASE v.type = "none"
  <2>1. v = NoValue
    BY <1>1, NoneIs
  <2>2. QED
    BY <2>1 DEF Untyped, Passed, CarriedValue, Got, NoValue
<1>2. CASE v.type # "none"
  <2> DEFINE t == v.type  n == Len(v.data)
  <2>1. /\ t \in Type \ {"Structure", "Float", "Double"} /\ v.array \in BOOLEAN
        /\ v.dims \in Seq(Nat) /\ v.data \in Seq(Datum[t])
        /\ ~v.array => v.dims = <<>> /\ n = 1
        /\ v.array => v.data # <<>>
    BY <1>2, VariantIs DEF Portable, Type
  <2>8. v = [type |-> t, array |-> v.array, dims |-> v.dims, data |-> v.data]
    BY <1>2, VariantIs
  <2>2. n \in Nat /\ DOMAIN v.data = 1..n /\ \A i \in 1..n : v.data[i] \in Datum[t]
    BY <2>1
  <2> DEFINE W(x) == IF t = "String" THEN Carried(x) ELSE IF t = "QualifiedName" THEN CarriedName(x) ELSE x
  <2>3. ASSUME NEW i \in 1..n
        PROVE  PassedDatum(t, v.data[i]) = [ok |-> TRUE, v |-> W(v.data[i])]
    <3>1. CASE t \in Exact
      BY <2>2, <3>1, ExactArrives DEF Exact
    <3>2. CASE t \in {"String", "QualifiedName"}
      <4>1. v.data[i] \in Text
        BY <2>2, <3>2 DEF Datum
      <4>2. QED
        BY <3>2, <4>1, TextsArrive
    <3>3. CASE t = "ExtensionObject"
      <4>1. v.data[i] = "nobody"
        BY <2>2, <3>3 DEF Portable
      <4>2. PassedDatum("ExtensionObject", "nobody") = DecodeExtensionObject(<<"object", "nobody">>)
        BY DEF PassedDatum, DecodeDatum, EncodeDatum
      <4>3. QED
        BY <3>3, <4>1, <4>2 DEF DecodeExtensionObject
    <3>4. CASE t = "DataValue"
      <4>1. v.data[i] = "plain"
        BY <2>2, <3>4 DEF Portable
      <4>2. PassedDatum("DataValue", "plain") = DecodeDataValue(<<"object", "plain">>)
        BY DEF PassedDatum, DecodeDatum, EncodeDatum
      <4>3. QED
        BY <3>4, <4>1, <4>2 DEF DecodeDataValue
    <3>5. QED
      BY <2>1, <3>1, <3>2, <3>3, <3>4 DEF Type, Exact
  <2>4. CarriedValue(v) = [type |-> t, array |-> v.array, dims |-> v.dims,
                           data |-> [i \in DOMAIN v.data |-> W(v.data[i])]]
    <3> DEFINE dd == [i \in DOMAIN v.data |-> W(v.data[i])]
    <3>1. CASE t = "String"
      <4>1. CarriedValue(v) = [v EXCEPT !.data = dd]
        BY <3>1 DEF CarriedValue
      <4> HIDE DEF dd
      <4>2. QED
        BY <2>8, <4>1 DEF dd
    <3>2. CASE t = "QualifiedName"
      <4>1. CarriedValue(v) = [v EXCEPT !.data = dd]
        BY <3>2 DEF CarriedValue, CarriedName
      <4> HIDE DEF dd
      <4>2. QED
        BY <2>8, <4>1 DEF dd
    <3>3. CASE t \notin {"String", "QualifiedName"}
      <4>1. CarriedValue(v) = v
        BY <3>3 DEF CarriedValue
      <4>2. dd = v.data
        BY <2>1, <3>3
      <4>3. QED
        BY <2>8, <4>1, <4>2
    <3>4. QED
      BY <3>1, <3>2, <3>3
  <2> HIDE DEF W
  <2>5. CASE v.array
    <3> DEFINE e == [i \in DOMAIN v.data |-> IF \A k \in 1..(i - 1) : Sound(v, k)
                                               THEN PassedDatum(t, v.data[i]).v ELSE Zero(t)]
    <3>1. ASSUME NEW i \in 1..n
          PROVE  Sound(v, i) /\ PassedDatum(t, v.data[i]).v = W(v.data[i])
      <4>1. PassedDatum(t, v.data[i]) = [ok |-> TRUE, v |-> W(v.data[i])]
        BY <2>3
      <4>2. PassedDatum(t, v.data[i]).ok
        BY <4>1
      <4>3. QED
        BY <4>1, <4>2 DEF Sound
    <3>2. \A i \in 1..n : e[i] = W(v.data[i])
      BY <2>2, <3>1
    <3>3. e = [i \in DOMAIN v.data |-> W(v.data[i])]
      BY <2>2, <3>2
    <3>4. \A i \in DOMAIN v.data : Sound(v, i)
      BY <2>2, <3>1
    <3> HIDE DEF e
    <3>5. PassedArray(v) = Got(TRUE, Array(t, v.dims, e))
      BY <3>4 DEF PassedArray, e
    <3>6. Passed(v) = PassedArray(v)
      BY <1>2, <2>1, <2>5 DEF Passed
    <3>7. Passed(v).value = Array(t, v.dims, e) /\ v.array = TRUE
      BY <2>1, <2>5, <3>5, <3>6 DEF Got
    <3>8. ~Untyped(v)
      BY <2>1, <2>5 DEF Untyped
    <3>9. QED
      BY <2>4, <3>3, <3>7, <3>8 DEF Array
  <2>6. CASE ~v.array
    <3>1. t # "UInt64"
      BY <2>6, Zenon DEF Portable
    <3>2. 1 \in 1..n /\ n = 1
      <4>1. Len(v.data) = 1
        BY <1>2, <2>6, VariantIs
      <4>2. QED
        BY <4>1
    <3>3. /\ PassedDatum(t, v.data[1]).ok = TRUE
          /\ PassedDatum(t, v.data[1]).v = W(v.data[1])
      BY <2>3, <3>2
    <3>4. Passed(v) = Got(PassedDatum(t, v.data[1]).ok, Scalar(t, PassedDatum(t, v.data[1]).v))
      BY <1>2, <2>1, <2>6, <3>1 DEF Passed
    <3>5. Passed(v).value = Scalar(t, W(v.data[1]))
      BY <3>3, <3>4 DEF Got
    <3>6. [i \in DOMAIN v.data |-> W(v.data[i])] = <<W(v.data[1])>>
      BY <2>2, <3>2
    <3>7. CarriedValue(v) = [type |-> t, array |-> FALSE, dims |-> <<>>, data |-> <<W(v.data[1])>>]
      BY <2>1, <2>4, <2>6, <3>6
    <3>8. QED
      BY <2>6, <3>5, <3>7 DEF Scalar, Untyped
  <2>7. QED
    BY <2>1, <2>5, <2>6
<1>3. QED
  BY <1>1, <1>2

\* A value without a type in JSON can be read as any type, and is a value then.
LEMMA MissingRead ==
  ASSUME NEW t \in Type
  PROVE  DecodeDatum(t, Missing).v \in Datum[t]
<1>1. There(Missing) = FALSE /\ Missing[2] = "nothing"
  BY DEF There, Missing
<1>2. CASE t \in {"Boolean", "Int32", "Int64", "UInt64", "Float", "Double", "Guid"}
  <2>1. DecodeDatum(t, Missing).v = 0
    BY <1>1, <1>2 DEF DecodeDatum
  <2>2. QED
    BY <1>2, <2>1, ConstantsOK DEF Datum
<1>3. CASE t \in {"String", "QualifiedName"}
  BY <1>1, <1>3 DEF DecodeDatum, DecodeText, Datum, Text
<1>4. CASE t = "ExtensionObject"
  BY <1>1, <1>4 DEF DecodeDatum, DecodeExtensionObject, Datum
<1>5. CASE t = "DataValue"
  BY <1>1, <1>5 DEF DecodeDatum, DecodeDataValue, Datum
<1>6. CASE t = "Structure"
  BY <1>1, <1>6 DEF DecodeDatum, Zero, Datum
<1>7. QED
  BY <1>2, <1>3, <1>4, <1>5, <1>6 DEF Type

\* An array of data is a value.
LEMMA ArrayIs ==
  ASSUME NEW t \in Type, NEW ds \in Seq(Nat), NEW n \in Nat, NEW e \in [1..n -> Datum[t]]
  PROVE  VariantOK(Array(t, ds, e))
<1>1. e \in Seq(Datum[t])
  OBVIOUS
<1>2. Array(t, ds, e) \in [type : {t}, array : BOOLEAN, dims : Seq(Nat), data : Seq(Datum[t])]
  BY <1>1 DEF Array
<1>3. Array(t, ds, e).array = TRUE
  BY DEF Array
<1>4. QED
  BY <1>2, <1>3 DEF VariantOK

\* What is read for a value without a type is a value.
LEMMA UntypedRead ==
  ASSUME NEW v, VariantOK(v), Untyped(v), NEW d \in DecodeValue(EncodeValue(v))
  PROVE  VariantOK(d.value)
<1> DEFINE j == EncodeVariant(v)  n == Len(v.data)
<1>1. /\ v.type # "none" /\ v.array = TRUE
      /\ v.data = <<>> \/ v.type = "Structure"
  <2>1. v # NoValue
    BY DEF Untyped, NoValue
  <2>2. QED
    BY <2>1, NoneIs, VariantIs DEF Untyped
<1>2. n \in Nat /\ DOMAIN v.data = 1..n /\ v.dims \in Seq(Nat)
  BY <1>1, VariantIs
<1>3. /\ j.type = "object" /\ j.length = n /\ j.dims = v.dims
      /\ DOMAIN j.data = 1..n /\ \A i \in 1..n : j.data[i] = Missing
      /\ j.data = [i \in 1..n |-> Missing]
  BY <1>1, <1>2 DEF EncodeVariant
<1> HIDE DEF j
<1>4. PICK t \in Type \cup {"wild", "unsupported"} : d = DecodeAs(t, j)
  <2>1. EncodeValue(v) = <<"object", j>>
    BY <1>1 DEF EncodeValue, j
  <2>2. d \in {DecodeAs(t, j) : t \in Type \cup {"wild", "unsupported"}}
    BY <1>3, <2>1 DEF DecodeValue
  <2>3. QED
    BY <2>2
<1>5. (IF j.data = <<>> THEN Missing ELSE j.data[1]) = Missing
  BY <1>2, <1>3
<1>6. VariantOK(NoValue) /\ Crash.value = NoValue /\ Got(FALSE, NoValue).value = NoValue
  BY DEF VariantOK, Crash, Got
<1>7. CASE t \in Type
  <2>1. \/ d = Crash
        \/ d = DecodeScalar(t, Missing)
        \/ d = DecodeArray(t, j)
    BY <1>4, <1>5, <1>7 DEF DecodeAs, Type
  <2>2. VariantOK(DecodeScalar(t, Missing).value)
    <3>1. CASE t = "UInt64"
      <4>1. DecodeDatum("UInt64", Missing).v = 0
        BY DEF DecodeDatum, There, Missing
      <4>2. DecodeScalar(t, Missing).value = Scalar("Int64", 0)
        BY <3>1, <4>1, ConstantsOK DEF DecodeScalar, Got
      <4> DEFINE s == "Int64"
      <4>3. 0 \in Datum[s] /\ s \in Type
        BY ConstantsOK DEF Datum, Type
      <4> HIDE DEF s
      <4>4. VariantOK(Scalar(s, 0))
        BY <4>3, ScalarIs
      <4>5. QED
        BY <4>2, <4>4 DEF s
    <3>2. CASE t = "Structure"
      <4>1. DecodeScalar(t, Missing).value = Array(t, <<>>, <<>>)
        BY <3>2 DEF DecodeScalar, Got
      <4>2. <<>> \in Seq(Nat) /\ <<>> \in [1..0 -> Datum[t]]
        OBVIOUS
      <4>3. QED
        BY <1>7, <4>1, <4>2, ArrayIs
    <3>3. CASE t \notin {"UInt64", "Structure"}
      <4>1. DecodeScalar(t, Missing).value = Scalar(t, DecodeDatum(t, Missing).v)
        BY <3>3 DEF DecodeScalar, Got
      <4>2. QED
        BY <1>7, <4>1, MissingRead, ScalarIs
    <3>4. QED
      BY <3>1, <3>2, <3>3
  <2>3. VariantOK(DecodeArray(t, j).value)
    <3> DEFINE f == [i \in DOMAIN j.data |-> DecodeDatum(t, j.data[i])]
               ok == \A i \in DOMAIN f : f[i].ok
               ds == IF ok THEN j.dims ELSE <<>>
               e == [i \in DOMAIN f |-> IF \A k \in 1..(i - 1) : f[k].ok THEN f[i].v ELSE Zero(t)]
    <3>1. DecodeArray(t, j).value = Array(t, ds, e)
      BY DEF DecodeArray, Got
    <3>2. \A i \in 1..n : f[i].v \in Datum[t]
      BY <1>3, <1>7, MissingRead
    <3>3. DOMAIN f = 1..n
      BY <1>3
    <3> HIDE DEF f
    <3>4. \A i \in 1..n : e[i] \in Datum[t]
      BY <1>7, <3>2, <3>3, ZeroIs
    <3>5. e \in [1..n -> Datum[t]]
      BY <3>3, <3>4
    <3>6. ds \in Seq(Nat)
      <4>1. <<>> \in Seq(Nat) /\ j.dims \in Seq(Nat)
        BY <1>2, <1>3
      <4>2. ds = <<>> \/ ds = j.dims
        OBVIOUS
      <4> HIDE DEF ds
      <4>3. QED
        BY <4>1, <4>2
    <3> HIDE DEF e, ds
    <3>7. QED
      BY <1>2, <1>7, <3>1, <3>5, <3>6, ArrayIs
  <2>4. QED
    BY <1>6, <2>1, <2>2, <2>3
<1>8. CASE t \in {"wild", "unsupported"}
  BY <1>4, <1>6, <1>8 DEF DecodeAs
<1>9. QED
  BY <1>4, <1>7, <1>8

\* Whatever the decoder makes of a value is a value.
LEMMA ReadIsValue ==
  ASSUME NEW v, VariantOK(v), NEW d \in DecodeValue(EncodeValue(v))
  PROVE  VariantOK(d.value) /\ (v = NoValue => d = Got(FALSE, NoValue))
<1>1. CASE Untyped(v)
  <2>1. v # NoValue
    BY <1>1 DEF Untyped, NoValue
  <2>2. QED
    BY <1>1, <2>1, UntypedRead
<1>2. CASE ~Untyped(v)
  <2>1. d = Passed(v)
    BY <1>2, PassesAs
  <2>2. v = NoValue => Passed(v) = Got(FALSE, NoValue)
    BY DEF Passed, NoValue
  <2>3. QED
    BY <1>2, <2>1, <2>2, PassedOnce
<1>3. QED
  BY <1>1, <1>2

-----------------------------------------------------------------------------
(* What may be encoded, and what a copy is; q is what the node is added with *)

TypeOf(a) == IF HasValue(a.class) /\ a.dataType = "null" THEN "base" ELSE a.dataType
RankOf(a) == IF HasValue(a.class) /\ a.valueRank = 0 /\ IsScalar(a.value) THEN -2 ELSE a.valueRank

\* The value of a is, but for its reals, the one of q before or after a passage, and
\* so are its type and its rank, unless the passage loses them.
SameValue(q, a) ==
  /\ ~Untyped(a.value) /\ Blurred(a.value) = Blurred(q.value)
  /\ Passed(q.value).ok => TypeOf(a) = TypeOf(q) /\ RankOf(a) = RankOf(q)

\* The attributes that somebody may encode.
Source(q, a) ==
  /\ IsAttributes(a) /\ a.class = q.class
  /\ \A f \in Flag : a.flag[f] \in Int
  /\ VariantOK(a.value) /\ a.valueRank \in Int
  /\ a.dataType \in Type \cup {"base", "null"} /\ a.dimsSize \in Nat
  /\ ~HasValue(a.class) => a.value = NoValue
  /\ q.dims = <<>> => a.dimsSize = 0
  /\ ~Untyped(q.value) => SameValue(q, a)

\* The type and the rank of a copy.
CopyType(q) == IF Passed(q.value).ok    THEN TypeOf(q)
               ELSE IF HasValue(q.class) THEN "base"
               ELSE "null"
CopyRank(q) == IF Passed(q.value).ok                                         THEN RankOf(q)
               ELSE IF HasValue(q.class) /\ IsScalar(Passed(q.value).value) THEN -2
               ELSE 0

\* Flags that may be garbage in a copy, and those that are lost.
Loose(c) == {"userAccessLevel"} \cup (IF c = "View" THEN {"eventNotifier"} ELSE {})
Lost(c)  == Flag \ (Loose(c) \cup (CarriedFlag(c) \cap FlagsOf[c]))

CopyOf(q, n) ==
  /\ n.dims = <<>> /\ n.dimsSize = 0
  /\ \A f \in Lost(q.class) : n.flag[f] = 0
  /\ ~Untyped(q.value) => /\ WithoutReals(n.value) = WithoutReals(Passed(q.value).value)
                          /\ n.dataType = CopyType(q) /\ n.valueRank = CopyRank(q)

\* The fields that Created leaves and the two it may change.
LEMMA CreatedFields ==
  ASSUME NEW a, IsAttributes(a)
  PROVE  LET n == Created(a) IN
         /\ IsAttributes(n) /\ n.class = a.class /\ n.flag = a.flag /\ n.value = a.value
         /\ n.dims = a.dims /\ n.dimsSize = a.dimsSize
         /\ n.dataType = TypeOf(a) /\ n.valueRank = RankOf(a)
<1> DEFINE n == Created(a)
<1>1. \A x \in Attribute \ {"dataType", "valueRank"} : n[x] = a[x]
  BY DEF Created, IsAttributes
<1>2. n.dataType = TypeOf(a) /\ n.valueRank = RankOf(a)
  BY DEF Created, IsAttributes, Attribute, TypeOf, RankOf
<1>3. n.class = a.class /\ n.flag = a.flag /\ n.value = a.value /\ n.dims = a.dims /\ n.dimsSize = a.dimsSize
  BY <1>1 DEF Attribute
<1> HIDE DEF n
<1>4. IsAttributes(n)
  BY CreatedSame DEF n
<1>5. QED
  BY <1>2, <1>3, <1>4 DEF n

\* Fitting type and rank in twice is fitting them in once.
LEMMA FittedOnce ==
  ASSUME NEW a, NEW n, n.class = a.class, n.dataType = TypeOf(a), n.valueRank = RankOf(a),
         HasValue(a.class) => (IsScalar(n.value) <=> IsScalar(a.value))
  PROVE  TypeOf(n) = TypeOf(a) /\ RankOf(n) = RankOf(a)
BY DEF TypeOf, RankOf

\* The request can be encoded.
LEMMA RequestIsSource ==
  ASSUME NEW q, IsRequest(q)
  PROVE  Source(q, q)
<1>1. /\ AttributesOK(q) /\ q.dataType \in Type \cup {"base", "null"}
      /\ ~HasValue(q.class) => q.value = NoValue
  BY DEF IsRequest
<1>2. q.dims \in Seq(Nat) /\ q.dimsSize = Len(q.dims)
  BY <1>1 DEF AttributesOK
<1>3. q.dimsSize \in Nat /\ (q.dims = <<>> => q.dimsSize = 0)
  BY <1>2
<1>4. QED
  BY <1>1, <1>3 DEF AttributesOK, Source, SameValue

\* The store's node can be encoded when what it was made of can.
LEMMA CreatedIsSource ==
  ASSUME NEW q, NEW a, Source(q, a)
  PROVE  Source(q, Created(a)) /\ (HasValue(q.class) => Created(a).dataType # "null")
<1> DEFINE n == Created(a)
<1>1. /\ IsAttributes(n) /\ n.class = a.class /\ n.flag = a.flag /\ n.value = a.value
      /\ n.dims = a.dims /\ n.dimsSize = a.dimsSize
      /\ n.dataType = TypeOf(a) /\ n.valueRank = RankOf(a)
  BY CreatedFields DEF Source
<1> HIDE DEF n
<1>2. TypeOf(a) \in Type \cup {"base", "null"} /\ (HasValue(q.class) => TypeOf(a) # "null")
  BY DEF Source, TypeOf, Type
<1>3. RankOf(a) \in Int
  BY DEF Source, RankOf
<1>4. TypeOf(n) = TypeOf(a) /\ RankOf(n) = RankOf(a)
  BY <1>1, FittedOnce
<1>5. SameValue(q, a) => SameValue(q, n)
  BY <1>1, <1>4 DEF SameValue
<1>6. QED
  BY <1>1, <1>2, <1>3, <1>5 DEF Source, n

\* And so can what is read back of a node.
LEMMA ReadBackIsSource ==
  ASSUME NEW q, NEW n, Source(q, n)
  PROVE  Source(q, ReadBack(n))
<1> DEFINE r == ReadBack(n)
<1>1. \A x \in Attribute \ {"dims", "dimsSize", "flag"} : r[x] = n[x]
  BY DEF ReadBack, Source, IsAttributes
<1>2. r.dimsSize = 0 /\ r.flag = [n.flag EXCEPT !["userAccessLevel"] = 0]
  BY DEF ReadBack, Source, IsAttributes, Attribute
<1>3. DOMAIN r = Attribute /\ r = [x \in Attribute |-> r[x]]
  BY DEF ReadBack, Source, IsAttributes
<1>4. DOMAIN r.flag = Flag /\ r.flag = [f \in Flag |-> r.flag[f]] /\ \A f \in Flag : r.flag[f] \in Int
  <2> DEFINE m == n.flag
  <2>1. DOMAIN m = Flag /\ m = [f \in Flag |-> m[f]] /\ \A f \in Flag : m[f] \in Int
    BY DEF Source, IsAttributes
  <2>2. r.flag = [m EXCEPT !["userAccessLevel"] = 0]
    BY <1>2
  <2> HIDE DEF r, m
  <2>3. QED
    BY <2>1, <2>2
<1>5. /\ r.class = n.class /\ r.value = n.value /\ r.dataType = n.dataType /\ r.valueRank = n.valueRank
      /\ r.browseName = n.browseName /\ r.displayName = n.displayName
      /\ r.description = n.description /\ r.inverseName = n.inverseName
  BY <1>1 DEF Attribute
<1> HIDE DEF r
<1>6. IsAttributes(r)
  BY <1>3, <1>4, <1>5 DEF Source, IsAttributes
<1>7. TypeOf(r) = TypeOf(n) /\ RankOf(r) = RankOf(n)
  BY <1>5 DEF TypeOf, RankOf
<1>8. SameValue(q, n) => SameValue(q, r)
  BY <1>5, <1>7 DEF SameValue
<1>9. QED
  BY <1>2, <1>4, <1>5, <1>6, <1>8 DEF Source, r

\* A flag that is lost is written in a form that is not the one it is read in.
LEMMA LostIsZero ==
  ASSUME NEW c \in Class, NEW f \in Lost(c), NEW v, NEW g
  PROVE  DecodeFlag(c, f, EncodeFlag(c, f, v), g) = 0
<1>1. f \in Flag /\ f \notin Loose(c) /\ ~(f \in CarriedFlag(c) /\ f \in FlagsOf[c])
  BY DEF Lost
<1>2. EncodeFlag(c, f, v)[1] # Format[f]
  <2>1. CASE f \in BooleanFlag
    <3>1. f \notin FlagsOf[c] /\ f # "writeMask"
      BY <1>1, <2>1 DEF CarriedFlag, BooleanFlag
    <3>2. EncodeFlag(c, f, v) = Missing /\ Format[f] = "boolean"
      BY <1>1, <2>1, <3>1 DEF EncodeFlag, Format, BooleanFlag
    <3>3. QED
      BY <3>2 DEF Missing
  <2>2. CASE f = "minimumSamplingInterval"
    BY <1>1, <2>2 DEF EncodeFlag, Format, Missing, BooleanFlag
  <2>3. CASE f = "accessLevel"
    <3>1. f \notin FlagsOf[c]
      BY <1>1, <2>3 DEF CarriedFlag
    <3>2. EncodeFlag(c, f, v) = Missing /\ Format[f] = "integer"
      BY <1>1, <2>3, <3>1 DEF EncodeFlag, Format, BooleanFlag
    <3>3. QED
      BY <3>2 DEF Missing
  <2>4. CASE f = "eventNotifier"
    <3>1. c # "Object"
      BY <1>1, <2>4 DEF CarriedFlag, FlagsOf
    <3>2. EncodeFlag(c, f, v) = Missing /\ Format[f] = "integer"
      BY <1>1, <2>4, <3>1 DEF EncodeFlag, Format, BooleanFlag
    <3>3. QED
      BY <3>2 DEF Missing
  <2>5. CASE f \in {"writeMask", "containsNoLoops"}
    BY <1>1, <2>5 DEF EncodeFlag, Format, Missing, BooleanFlag
  <2>6. f # "userAccessLevel"
    BY <1>1 DEF Loose
  <2>7. QED
    BY <1>1, <2>1, <2>2, <2>3, <2>4, <2>5, <2>6 DEF Flag, IntegerFlag
<1>3. f \notin Temporary \cap FlagsOf[c]
  BY <1>1 DEF Temporary, Loose, CarriedFlag, FlagsOf, Class
<1>4. QED
  BY <1>2, <1>3 DEF DecodeFlag

\* What a flag is read as is a number, whatever garbage it is.
LEMMA FlagIsNumber ==
  ASSUME NEW c, NEW f \in Flag, NEW v \in Int, NEW g \in Int
  PROVE  DecodeFlag(c, f, EncodeFlag(c, f, v), g) \in Int
<1>1. EncodeFlag(c, f, v) = Missing \/ EncodeFlag(c, f, v)[2] \in Int
  <2>1. v \div One \in Int
    BY ConstantsOK
  <2>2. QED
    BY <2>1 DEF EncodeFlag
<1>2. Missing[1] # Format[f]
  BY DEF Missing, Format
<1>3. QED
  BY <1>1, <1>2 DEF DecodeFlag

\* What a server makes of a pack: a node that can be encoded again, whole, and a
\* copy, unless the pack kills the server.
LEMMA CopyMade ==
  ASSUME NEW q, IsRequest(q), NEW a, Source(q, a),
         NEW d \in DecodeValue(Encode(a).value), NEW g \in Int,
         ~Kills(Decode(Encode(a), d, g)),
         IsAttributes(Decode(Encode(a), d, g))
  PROVE  LET n == Created(Decode(Encode(a), d, g)) IN
         /\ Source(q, n) /\ AttributesOK(n) /\ CopyOf(q, n)
         /\ HasValue(n.class) => n.dataType # "null"
<1> DEFINE p == Encode(a)  b == Decode(p, d, g)  n == Created(b)
<1>1. /\ p.class = a.class /\ p.value = EncodeValue(a.value) /\ p.dataType = a.dataType
      /\ p.valueRank = a.valueRank /\ p.dimsSize = a.dimsSize
      /\ \A f \in Flag : p.flag[f] = EncodeFlag(a.class, f, a.flag[f])
  BY DEF Encode
<1>2. d \in DecodeValue(EncodeValue(a.value))
  BY <1>1
<1>3. VariantOK(d.value) /\ (a.value = NoValue => d = Got(FALSE, NoValue))
  BY <1>2, ReadIsValue DEF Source
<1>4. /\ b.class = p.class /\ b.value = d.value /\ b.dims = <<>>
      /\ b.dataType = IF d.ok THEN p.dataType ELSE "null"
      /\ b.valueRank = IF d.ok THEN p.valueRank ELSE 0
      /\ b.dimsSize = IF d.ok THEN p.dimsSize ELSE 0
      /\ \A f \in Flag : b.flag[f] = DecodeFlag(p.class, f, p.flag[f], g)
  BY DEF Decode
<1>5. ~Kills(b) /\ IsAttributes(b)
  OBVIOUS
<1> HIDE DEF p, b
<1>6. /\ IsAttributes(n) /\ n.class = b.class /\ n.flag = b.flag /\ n.value = b.value
      /\ n.dims = b.dims /\ n.dimsSize = b.dimsSize
      /\ n.dataType = TypeOf(b) /\ n.valueRank = RankOf(b)
  BY <1>5, CreatedFields
<1> HIDE DEF n
<1>7. /\ a.class = q.class /\ q.class \in Class /\ a.dimsSize \in Nat
      /\ \A f \in Flag : a.flag[f] \in Int
      /\ a.dataType \in Type \cup {"base", "null"} /\ a.valueRank \in Int
      /\ ~HasValue(a.class) => a.value = NoValue
  BY DEF Source, IsAttributes
<1>8. n.class = q.class /\ b.class = q.class
  BY <1>1, <1>4, <1>6, <1>7
<1>9. n.dims = <<>> /\ n.dimsSize = 0
  <2>1. b.dimsSize = 0
    <3>1. CASE HasValue(q.class)
      <4>1. ~(b.dimsSize > 0)
        BY <1>4, <1>5, <1>8, <3>1 DEF Kills
      <4>2. QED
        BY <1>1, <1>4, <1>7, <4>1
    <3>2. CASE ~HasValue(q.class)
      <4>1. d.ok = FALSE
        BY <1>3, <1>7, <3>2 DEF Got
      <4>2. QED
        BY <1>4, <4>1
    <3>3. QED
      BY <3>1, <3>2
  <2>2. QED
    BY <1>4, <1>6, <2>1
<1>10. \A f \in Flag : n.flag[f] \in Int
  BY <1>1, <1>4, <1>6, <1>7, FlagIsNumber
<1>11. \A f \in Lost(q.class) : n.flag[f] = 0
  <2>1. Lost(q.class) \subseteq Flag
    BY DEF Lost
  <2>2. QED
    BY <1>1, <1>4, <1>6, <1>7, <2>1, LostIsZero
<1>12. /\ TypeOf(b) \in Type \cup {"base", "null"} /\ (HasValue(q.class) => TypeOf(b) # "null")
       /\ RankOf(b) \in Int
  BY <1>1, <1>4, <1>7, <1>8 DEF TypeOf, RankOf, Type
<1>13. ~HasValue(q.class) => n.value = NoValue
  BY <1>3, <1>4, <1>6, <1>7 DEF Got
<1>14. AttributesOK(n)
  <2>1. <<>> \in Seq(Nat) /\ Len(<<>>) = 0
    OBVIOUS
  <2>2. n.dims \in Seq(Nat) /\ n.dimsSize = Len(n.dims)
    BY <1>9, <2>1
  <2>3. QED
    BY <1>3, <1>4, <1>6, <1>10, <1>12, <2>2 DEF AttributesOK
<1>15. ASSUME ~Untyped(q.value)
       PROVE  /\ WithoutReals(n.value) = WithoutReals(Passed(q.value).value)
              /\ n.dataType = CopyType(q) /\ n.valueRank = CopyRank(q)
              /\ SameValue(q, n)
  <2> DEFINE P == Passed(q.value)  R == Passed(a.value)
  <2>1. /\ VariantOK(a.value) /\ ~Untyped(a.value) /\ Blurred(a.value) = Blurred(q.value)
        /\ P.ok => TypeOf(a) = TypeOf(q) /\ RankOf(a) = RankOf(q)
    BY <1>15 DEF Source, SameValue
  <2>2. d = R
    BY <1>2, <2>1, PassesAs
  <2>3. /\ VariantOK(R.value) /\ ~Untyped(R.value) /\ Blurred(R.value) = Blurred(q.value)
        /\ R.ok => /\ R.value.type # "none" /\ a.value.type # "none"
                   /\ R.value.array = a.value.array
    BY <2>1, PassedOnce
  <2>4. R.ok = P.ok /\ WithoutReals(R.value) = WithoutReals(P.value)
    BY <2>1 DEF Blurred, Got
  <2>5. IsScalar(R.value) <=> IsScalar(P.value)
    <3>1. VariantOK(P.value)
      BY <1>15, PassedOnce DEF IsRequest, AttributesOK
    <3> DEFINE x == R.value  y == P.value
    <3>2. VariantOK(x) /\ VariantOK(y) /\ WithoutReals(x) = WithoutReals(y)
      BY <2>3, <2>4, <3>1
    <3> HIDE DEF x, y
    <3>3. IsScalar(x) <=> IsScalar(y)
      BY <3>2, RealsAside
    <3>4. QED
      BY <3>3 DEF x, y
  <2> HIDE DEF P, R
  <2>6. n.value = R.value
    BY <1>4, <1>6, <2>2
  <2>7. CASE P.ok
    <3>1. b.dataType = a.dataType /\ b.valueRank = a.valueRank /\ b.value = R.value
      BY <1>1, <1>4, <2>2, <2>4, <2>7
    <3>2. IsScalar(b.value) <=> IsScalar(a.value)
      BY <2>3, <2>4, <2>7, <3>1 DEF IsScalar
    <3>3. TypeOf(b) = TypeOf(a) /\ RankOf(b) = RankOf(a)
      BY <1>7, <1>8, <3>1, <3>2 DEF TypeOf, RankOf
    <3>4. n.dataType = TypeOf(q) /\ n.valueRank = RankOf(q)
      BY <1>6, <2>1, <2>7, <3>3
    <3>5. TypeOf(n) = TypeOf(b) /\ RankOf(n) = RankOf(b)
      BY <1>6, FittedOnce
    <3>6. QED
      BY <1>6, <2>3, <2>4, <2>6, <2>7, <3>4, <3>5 DEF SameValue, CopyType, CopyRank, P
  <2>8. CASE ~P.ok
    <3>1. b.dataType = "null" /\ b.valueRank = 0 /\ b.value = R.value
      BY <1>4, <2>2, <2>4, <2>8
    <3>2. n.dataType = CopyType(q) /\ n.valueRank = CopyRank(q)
      BY <1>6, <1>8, <2>5, <2>8, <3>1 DEF TypeOf, RankOf, CopyType, CopyRank, P
    <3>3. SameValue(q, n)
      BY <2>3, <2>6, <2>8 DEF SameValue, P
    <3>4. QED
      BY <2>4, <2>6, <3>2, <3>3 DEF P
  <2>9. QED
    BY <2>7, <2>8
<1>16. Source(q, n)
  BY <1>3, <1>4, <1>6, <1>8, <1>9, <1>10, <1>12, <1>13, <1>15 DEF Source
<1>17. CopyOf(q, n)
  BY <1>9, <1>11, <1>15 DEF CopyOf
<1>18. QED
  BY <1>6, <1>8, <1>12, <1>14, <1>16, <1>17 DEF n, b, p

\* A node that the first server's store took, and that Copyable does not except,
\* fits as a copy: its type is the one of its value, or none was left to check.
LEMMA CopyFits ==
  ASSUME NEW q, IsRequest(q), Copyable(q), HasValue(q.class),
         NEW n, n.class = q.class, VariantOK(n.value), CopyOf(q, n)
  PROVE  Fits(n)
<1> DEFINE v == q.value  P == Passed(v)  c == Created(q)
<1>1. IsAttributes(q) /\ VariantOK(v) /\ q.valueRank \in Int
  BY DEF IsRequest, AttributesOK
<1>2. /\ Fits(c) /\ q.dims = <<>> /\ ~Untyped(v)
      /\ ~(IsScalar(v) /\ v.type = "UInt64" /\ q.dataType = "UInt64")
  BY DEF Copyable, Refuses
<1>3. /\ c.value = v /\ c.dims = <<>> /\ c.dataType = TypeOf(q) /\ c.valueRank = RankOf(q)
  BY <1>1, <1>2, CreatedFields
<1>4. /\ P.ok \in BOOLEAN /\ VariantOK(P.value)
      /\ P.ok => /\ P.value.type # "none" /\ v.type # "none" /\ P.value.array = v.array
                 /\ P.value.type = v.type \/ (IsScalar(v) /\ v.type = "UInt64")
  BY <1>1, <1>2, PassedOnce
<1>5. /\ n.dims = <<>> /\ n.dataType = CopyType(q) /\ n.valueRank = CopyRank(q)
      /\ n.value.type = P.value.type /\ n.value.array = P.value.array
      /\ IsScalar(n.value) <=> IsScalar(P.value)
  <2> DEFINE x == n.value  y == P.value
  <2>1. VariantOK(x) /\ VariantOK(y) /\ WithoutReals(x) = WithoutReals(y)
    BY <1>2, <1>4 DEF CopyOf
  <2> HIDE DEF x, y
  <2>2. x.type = y.type /\ x.array = y.array /\ (IsScalar(x) <=> IsScalar(y))
    BY <2>1, RealsAside
  <2>3. QED
    BY <1>2, <2>2 DEF CopyOf, x, y
<1> HIDE DEF v, P, c
<1>6. /\ v.type = "none" \/ TypeOf(q) \in {"base", v.type}
      /\ v.type # "none" => RankAllows(RankOf(q), IF IsScalar(v) THEN 0 ELSE 1)
  BY <1>2, <1>3 DEF Fits
<1>7. CASE P.ok
  <2>1. n.dataType = TypeOf(q) /\ n.valueRank = RankOf(q)
    BY <1>5, <1>7 DEF CopyType, CopyRank, P, v
  <2>2. v.type # "none" /\ (IsScalar(n.value) <=> IsScalar(v))
    BY <1>4, <1>5, <1>7 DEF IsScalar
  <2>3. TypeOf(q) \in {"base", n.value.type}
    <3>1. CASE P.value.type = v.type
      BY <1>5, <1>6, <2>2, <3>1
    <3>2. CASE IsScalar(v) /\ v.type = "UInt64"
      <4>1. q.dataType # "UInt64" /\ TypeOf(q) \in {"base", "UInt64"}
        BY <1>2, <1>6, <2>2, <3>2
      <4>2. QED
        BY <4>1 DEF TypeOf
    <3>3. QED
      BY <1>4, <1>7, <3>1, <3>2
  <2>4. QED
    BY <1>5, <1>6, <2>1, <2>2, <2>3 DEF Fits
<1>8. CASE ~P.ok
  <2>1. n.dataType = "base" /\ n.valueRank = IF IsScalar(n.value) THEN -2 ELSE 0
    BY <1>5, <1>8 DEF CopyType, CopyRank, P, v
  <2>2. RankAllows(n.valueRank, IF IsScalar(n.value) THEN 0 ELSE 1)
    BY <2>1 DEF RankAllows
  <2>3. QED
    BY <1>5, <2>1, <2>2 DEF Fits
<1>9. QED
  BY <1>4, <1>7, <1>8

\* So every server takes the pack of such a node.
LEMMA CopyTaken ==
  ASSUME NEW q, IsRequest(q), Copyable(q), NEW a, Source(q, a),
         NEW d \in DecodeValue(Encode(a).value), NEW g \in Int,
         IsAttributes(Decode(Encode(a), d, g))
  PROVE  /\ ~d.crash
         /\ ~Kills(Decode(Encode(a), d, g)) /\ ~Refuses(Decode(Encode(a), d, g))
<1> DEFINE b == Decode(Encode(a), d, g)
<1>1. ~Untyped(q.value) /\ q.dims = <<>> /\ q.class # "Method"
  BY DEF Copyable, Refuses
<1>2. VariantOK(a.value) /\ ~Untyped(a.value) /\ a.dimsSize = 0 /\ a.class = q.class
  BY <1>1 DEF Source, SameValue
<1>3. ~d.crash
  <2>1. d \in DecodeValue(EncodeValue(a.value))
    BY DEF Encode
  <2>2. d = Passed(a.value)
    BY <1>2, <2>1, PassesAs
  <2>3. QED
    BY <1>2, <2>2, PassedOnce
<1>4. b.dimsSize = 0 /\ b.dims = <<>> /\ b.class = q.class
  BY <1>2 DEF Decode, Encode
<1> HIDE DEF b
<1>5. ~Kills(b)
  BY <1>4 DEF Kills
<1>6. HasValue(q.class) => Fits(Created(b))
  <2>1. CopyOf(q, Created(b)) /\ VariantOK(Created(b).value)
    BY <1>5, CopyMade DEF b, AttributesOK
  <2>2. Created(b).class = q.class
    BY <1>4, CreatedSame DEF b
  <2>3. QED
    BY <2>1, <2>2, CopyFits
<1>7. ~Refuses(b)
  BY <1>1, <1>4, <1>6 DEF Refuses
<1>8. QED
  BY <1>3, <1>5, <1>7 DEF b

-----------------------------------------------------------------------------
(* The values of the nodes: the invariant *)

\* A node of server s: it can be encoded, is whole, and is a copy or what the store
\* of the first server made of the request.
NodeOK(q, s, n) ==
  /\ Source(q, n) /\ AttributesOK(n)
  /\ HasValue(n.class) => n.dataType # "null"
  /\ CopyOf(q, n) \/ (s = Home /\ n = Created(q))

Bounds == /\ version \in 0..MaxVersion /\ seen \in [Server -> 0..version]
          /\ dead \subseteq Server /\ (version = 0 => dead = {})

PackFrom == version > 0 => \E a : Source(request, a) /\ pack = Encode(a)

NodesOK == \A s \in Server : node[s] # Absent => NodeOK(request, s, node[s])

\* Who has seen the last pack of a node that can be copied has the node, and lives.
Holders == Copyable(request) =>
  \A s \in Server : (version > 0 /\ seen[s] = version) => s \notin dead /\ node[s] # Absent

ValueInv == Bounds /\ PackFrom /\ NodesOK /\ Holders

\* The invariant holds at the start.
LEMMA ValueInit == Init => ValueInv
BY ConstantsOK DEF Init, ValueInv, Bounds, PackFrom, NodesOK, Holders

\* What the store of the first server makes of the request.
LEMMA CreatedIsNode ==
  ASSUME NEW q, IsRequest(q)
  PROVE  NodeOK(q, Home, Created(q))
<1>1. Source(q, Created(q)) /\ (HasValue(q.class) => Created(q).dataType # "null")
  BY RequestIsSource, CreatedIsSource
<1>2. /\ Created(q).class = q.class /\ Created(q).dims = q.dims /\ Created(q).dimsSize = q.dimsSize
      /\ q.dims \in Seq(Nat) /\ q.dimsSize = Len(q.dims)
  BY CreatedFields DEF IsRequest, AttributesOK
<1>3. AttributesOK(Created(q))
  BY <1>1, <1>2 DEF AttributesOK, Source
<1>4. QED
  BY <1>1, <1>2, <1>3 DEF NodeOK

\* The step that pushes a pack leaves it to the others to see it.
LEMMA Unseen ==
  ASSUME Bounds, NEW s \in Server, version < MaxVersion,
         version' = version + 1, seen' = [seen EXCEPT ![s] = version + 1], UNCHANGED dead
  PROVE  /\ version' \in 0..MaxVersion /\ seen' \in [Server -> 0..version']
         /\ version' > 0 /\ \A t \in Server : seen'[t] = version' => t = s
<1>1. version \in 0..MaxVersion /\ seen \in [Server -> 0..version] /\ MaxVersion \in Nat
  BY ConstantsOK DEF Bounds
<1>2. version' \in 0..MaxVersion /\ version' > 0
  BY <1>1
<1>3. ASSUME NEW t \in Server
      PROVE  seen'[t] \in 0..version' /\ (seen'[t] = version' => t = s)
  BY <1>1
<1>4. seen' = [t \in Server |-> seen'[t]]
  BY <1>1
<1>5. seen' \in [Server -> 0..version']
  BY <1>3, <1>4
<1>6. QED
  BY <1>2, <1>3, <1>5

\* Adding the node keeps it.
LEMMA ValueAdded ==
  ASSUME Inv, ValueInv, AddNodesRequest \/ AddUnpushed
  PROVE  ValueInv'
<1>1. request' = request /\ request \in Requests /\ IsRequest(request) /\ Home \in Server
  BY ConstantsOK DEF AddNodesRequest, AddUnpushed, Inv
<1>2. DOMAIN node = Server /\ version = 0 /\ dead' = dead /\ dead = {} /\ node[Home] = Absent
  BY DEF Inv, ValueInv, Bounds, AddNodesRequest, AddUnpushed
<1>3. NodesOK'
  <2>1. PICK n \in {Absent, Created(request)} : node' = [node EXCEPT ![Home] = n]
    BY DEF AddNodesRequest, AddUnpushed
  <2>2. ASSUME NEW s \in Server, node'[s] # Absent
        PROVE  NodeOK(request, s, node'[s])
    <3>1. CASE s = Home
      BY <1>1, <1>2, <2>1, <2>2, <3>1, CreatedIsNode
    <3>2. CASE s # Home
      BY <1>1, <1>2, <2>1, <2>2, <3>2 DEF ValueInv, NodesOK
    <3>3. QED
      BY <3>1, <3>2
  <2>3. QED
    BY <1>1, <2>2 DEF NodesOK
<1>4. CASE AddNodesRequest
  <2>1. /\ version < MaxVersion /\ version' = version + 1 /\ pack' = Encode(request)
        /\ seen' = [seen EXCEPT ![Home] = version + 1]
        /\ node' = [node EXCEPT ![Home] = IF AddNode(Absent, request) = "good"
                                            THEN Created(request) ELSE Absent]
    BY <1>4 DEF AddNodesRequest, Push
  <2>2. /\ version' \in 0..MaxVersion /\ seen' \in [Server -> 0..version']
        /\ version' > 0 /\ \A t \in Server : seen'[t] = version' => t = Home
    BY <1>1, <1>2, <2>1, Unseen DEF ValueInv
  <2>3. Bounds'
    BY <1>2, <2>2 DEF Bounds, ValueInv
  <2>4. PackFrom'
    BY <1>1, <2>1, RequestIsSource DEF PackFrom
  <2>5. ASSUME Copyable(request)
        PROVE  node'[Home] # Absent
    <3>1. ~Refuses(request) /\ request.dims = <<>>
      BY <2>5 DEF Copyable
    <3>2. ~Kills(request)
      <4>1. request.dimsSize = Len(request.dims) /\ request.dims \in Seq(Nat)
        BY <1>1 DEF IsRequest, AttributesOK
      <4>2. QED
        BY <4>1 DEF Kills
    <3>3. AddNode(Absent, request) = "good"
      BY <3>1, <3>2 DEF AddNode
    <3>4. Created(request) # Absent
      BY <1>1, CreatedSame DEF IsRequest, AttributesOK
    <3>5. QED
      BY <1>1, <1>2, <2>1, <3>3, <3>4
  <2>6. Holders'
    BY <1>1, <1>2, <2>2, <2>5 DEF Holders
  <2>7. QED
    BY <1>3, <2>3, <2>4, <2>6 DEF ValueInv
<1>5. CASE AddUnpushed
  <2>1. version' = version /\ seen' = seen /\ pack' = pack
    BY <1>5 DEF AddUnpushed
  <2>2. Bounds' /\ PackFrom' /\ Holders'
    BY <1>1, <1>2, <2>1 DEF ValueInv, Bounds, PackFrom, Holders
  <2>3. QED
    BY <1>3, <2>2 DEF ValueInv
<1>6. QED
  BY <1>4, <1>5

\* Pushing a node that is there keeps it.
LEMMA ValuePushed ==
  ASSUME Inv, ValueInv, ClientCopies \/ \E s \in Server : WriteBack(s)
  PROVE  ValueInv'
<1>1. node' = node /\ request' = request /\ dead' = dead
  BY DEF ClientCopies, WriteBack
<1>2. NodesOK'
  BY <1>1 DEF ValueInv, NodesOK
<1>3. CASE ClientCopies
  <2>1. /\ node[Home] # Absent /\ version < MaxVersion /\ version' = version + 1
        /\ seen' = seen /\ pack' = Encode(node[Home])
    BY <1>3 DEF ClientCopies
  <2>2. version \in 0..MaxVersion /\ seen \in [Server -> 0..version] /\ MaxVersion \in Nat
    BY ConstantsOK DEF ValueInv, Bounds
  <2>3. version' \in 0..MaxVersion /\ version' > 0 /\ seen' \in [Server -> 0..version']
    BY <2>1, <2>2
  <2>4. \A s \in Server : seen'[s] # version'
    BY <2>1, <2>2
  <2>5. Source(request, node[Home])
    BY <2>1, ConstantsOK DEF ValueInv, NodesOK, NodeOK
  <2>6. PackFrom'
    BY <1>1, <2>1, <2>5 DEF PackFrom
  <2>7. Bounds' /\ Holders'
    BY <1>1, <2>3, <2>4 DEF ValueInv, Bounds, Holders
  <2>8. QED
    BY <1>2, <2>6, <2>7 DEF ValueInv
<1>4. CASE \E s \in Server : WriteBack(s)
  <2>1. PICK s \in Server :
          /\ s \notin dead /\ node[s] # Absent /\ version < MaxVersion /\ version' = version + 1
          /\ seen' = [seen EXCEPT ![s] = version + 1] /\ pack' = Encode(ReadBack(node[s]))
    BY <1>4 DEF WriteBack, Push
  <2>2. /\ version' \in 0..MaxVersion /\ seen' \in [Server -> 0..version']
        /\ version' > 0 /\ \A t \in Server : seen'[t] = version' => t = s
    BY <1>1, <2>1, Unseen DEF ValueInv
  <2>3. Source(request, ReadBack(node[s]))
    BY <2>1, ReadBackIsSource DEF ValueInv, NodesOK, NodeOK
  <2>4. PackFrom'
    BY <1>1, <2>1, <2>3 DEF PackFrom
  <2>5. Bounds' /\ Holders'
    BY <1>1, <2>1, <2>2 DEF ValueInv, Bounds, Holders
  <2>6. QED
    BY <1>2, <2>4, <2>5 DEF ValueInv
<1>5. QED
  BY <1>3, <1>4

\* What a server has after it copied a pack.
LEMMA CopyLeaves ==
  ASSUME Inv, ValueInv, NEW s \in Server, Copy(s)
  PROVE  /\ \A t \in Server : t # s => node'[t] = node[t] /\ (t \in dead' <=> t \in dead)
         /\ dead' \subseteq Server
         /\ (node'[s] # Absent /\ node'[s] # node[s]) => NodeOK(request, s, node'[s])
         /\ Copyable(request) => s \notin dead' /\ node'[s] # Absent
<1>1. request \in Requests /\ IsRequest(request) /\ Home \in Server /\ Garbage \subseteq Int
  BY ConstantsOK DEF Inv
<1>2. version > 0 /\ PackKept /\ s \notin dead /\ dead \subseteq Server /\ DOMAIN node = Server
  BY DEF Copy, Inv, ValueInv, Bounds
<1>3. PICK a : Source(request, a) /\ pack = Encode(a)
  BY <1>2 DEF ValueInv, PackFrom
<1>4. CASE pack.class = "Method"
  <2>1. ~Copyable(request)
    BY <1>2, <1>4 DEF PackKept, Copyable, Refuses
  <2>2. node' = node /\ dead' = dead
    BY <1>4 DEF Copy
  <2>3. QED
    BY <1>2, <2>1, <2>2
<1>5. CASE pack.class # "Method"
  <2>1. PICK d \in DecodeValue(pack.value), g \in Garbage : Decoded(s, d, g)
    BY <1>5 DEF Copy
  <2> DEFINE b == Decode(pack, d, g)
  <2>2. IsAttributes(b)
    BY <1>1, <1>2, DecodeKeeps DEF Kept
  <2>3. g \in Int /\ d \in DecodeValue(Encode(a).value) /\ b = Decode(Encode(a), d, g)
    BY <1>1, <1>3, <2>1
  <2>4. ~Kills(b) => NodeOK(request, s, Created(b))
    BY <1>1, <1>3, <2>2, <2>3, CopyMade DEF NodeOK
  <2>5. Copyable(request) => ~d.crash /\ ~Kills(b) /\ ~Refuses(b)
    BY <1>1, <1>3, <2>2, <2>3, CopyTaken
  <2>6. Created(b) # Absent
    BY <2>2, CreatedSame
  <2>7. Decoded(s, d, g) <=> IF d.crash \/ AddNode(node[s], b) = "crash"
                               THEN dead' = dead \cup {s} /\ node' = [node EXCEPT ![s] = Absent]
                               ELSE dead' = dead /\ node' = [node EXCEPT ![s] = Replaced(node[s], b)]
    BY DEF Decoded
  <2> HIDE DEF b
  <2>8. CASE d.crash \/ AddNode(node[s], b) = "crash"
    <3>1. dead' = dead \cup {s} /\ node' = [node EXCEPT ![s] = Absent]
      BY <2>1, <2>7, <2>8
    <3>2. ~Copyable(request)
      BY <2>5, <2>8 DEF AddNode
    <3>3. QED
      BY <1>2, <3>1, <3>2
  <2>9. CASE ~(d.crash \/ AddNode(node[s], b) = "crash")
    <3>1. dead' = dead /\ node' = [node EXCEPT ![s] = Replaced(node[s], b)]
      BY <2>1, <2>7, <2>9
    <3>2. ~Kills(b)
      BY <2>9 DEF AddNode
    <3>3. Replaced(node[s], b) \in {node[s], Created(b)}
      BY <2>2, ReplacedIs DEF b
    <3>4. Copyable(request) => Replaced(node[s], b) = Created(b)
      BY <2>5 DEF Replaced, AddNode
    <3>5. QED
      BY <1>2, <2>4, <2>6, <3>1, <3>2, <3>3, <3>4
  <2>10. QED
    BY <2>8, <2>9
<1>6. QED
  BY <1>4, <1>5

\* Copying a pack keeps it.
LEMMA ValueCopied ==
  ASSUME Inv, ValueInv, NEW s \in Server, Copy(s)
  PROVE  ValueInv'
<1>1. /\ request' = request /\ pack' = pack /\ version' = version
      /\ seen' = [seen EXCEPT ![s] = version] /\ seen[s] < version
  BY DEF Copy
<1>2. version \in 0..MaxVersion /\ seen \in [Server -> 0..version] /\ MaxVersion \in Nat
  BY ConstantsOK DEF ValueInv, Bounds
<1>3. Bounds'
  <2>1. seen' \in [Server -> 0..version]
    BY <1>1, <1>2
  <2>2. version # 0
    BY <1>1, <1>2
  <2>3. QED
    BY <1>1, <1>2, <2>1, <2>2, CopyLeaves DEF Bounds
<1>4. PackFrom'
  BY <1>1 DEF ValueInv, PackFrom
<1>5. ASSUME NEW t \in Server, node'[t] # Absent
      PROVE  NodeOK(request, t, node'[t])
  <2>1. node'[t] = node[t] => NodeOK(request, t, node'[t])
    BY <1>5 DEF ValueInv, NodesOK
  <2>2. t # s => node'[t] = node[t]
    BY CopyLeaves
  <2>3. node'[s] # Absent /\ node'[s] # node[s] => NodeOK(request, s, node'[s])
    BY CopyLeaves
  <2>4. QED
    BY <1>5, <2>1, <2>2, <2>3
<1>6. NodesOK'
  BY <1>1, <1>5 DEF NodesOK
<1>7. Holders'
  <2> SUFFICES ASSUME Copyable(request), NEW t \in Server, version > 0, seen'[t] = version
               PROVE  t \notin dead' /\ node'[t] # Absent
    BY <1>1 DEF Holders
  <2>1. CASE t = s
    BY <2>1, CopyLeaves
  <2>2. CASE t # s
    <3>1. seen[t] = version
      BY <1>1, <1>2, <2>2
    <3>2. t \notin dead /\ node[t] # Absent
      BY <3>1 DEF ValueInv, Holders
    <3>3. QED
      BY <2>2, <3>2, CopyLeaves
  <2>3. QED
    BY <2>1, <2>2
<1>8. QED
  BY <1>3, <1>4, <1>6, <1>7 DEF ValueInv

\* Every step keeps the invariant.
LEMMA ValueNext == Inv /\ ValueInv /\ [Next]_vars => ValueInv'
<1>1. ASSUME ValueInv, UNCHANGED vars PROVE ValueInv'
  BY <1>1 DEF vars, ValueInv, Bounds, PackFrom, NodesOK, Holders
<1>2. QED
  BY <1>1, ValueAdded, ValuePushed, ValueCopied DEF Next

\* Both invariants hold always.
LEMMA ValueHolds == Spec => [](Inv /\ ValueInv)
<1>1. Inv /\ ValueInv /\ [Next]_vars => (Inv /\ ValueInv)'
  BY InvNext, ValueNext
<1>2. Init => Inv /\ ValueInv
  BY InvInit, ValueInit
<1>3. QED
  BY <1>1, <1>2, PTL DEF Spec

-----------------------------------------------------------------------------
(* The values of the nodes: the theorems *)

\* The types follow from the invariant.
LEMMA WellTyped == Inv /\ ValueInv => TypeOK
<1> SUFFICES ASSUME Inv, ValueInv PROVE TypeOK
  OBVIOUS
<1>1. AttributesOK(request)
  BY ConstantsOK DEF Inv, IsRequest
<1>2. ASSUME NEW s \in Server, node[s] # Absent
      PROVE  /\ AttributesOK(node[s])
             /\ HasValue(node[s].class) => node[s].dataType \in Type \cup {"base"}
  BY <1>2 DEF ValueInv, NodesOK, NodeOK, Source
<1>3. QED
  BY <1>1, <1>2 DEF ValueInv, Bounds, TypeOK

\* What the servers hold are nodes, whole and of a known type, whatever the decoder
\* left in the attributes and the stack in what nobody initialised.
THEOREM TypesKept == Spec => []TypeOK
BY ValueHolds, WellTyped, PTL

\* What becomes of a portable value is of the same type.
LEMMA CarriedTyped ==
  ASSUME NEW v, VariantOK(v)
  PROVE  CarriedValue(v).type = v.type
<1>1. CASE v.type \in {"String", "QualifiedName"}
  <2>1. v = [type |-> v.type, array |-> v.array, dims |-> v.dims, data |-> v.data]
    BY <1>1, VariantIs
  <2>2. \E e : CarriedValue(v) = [v EXCEPT !.data = e]
    BY <1>1 DEF CarriedValue
  <2>3. QED
    BY <2>1, <2>2
<1>2. CASE v.type \notin {"String", "QualifiedName"}
  BY <1>2 DEF CarriedValue
<1>3. QED
  BY <1>1, <1>2

\* So does what becomes of a portable value,
LEMMA ValuesCarried == Inv /\ ValueInv => ValuesSurvive
<1> SUFFICES ASSUME Inv, ValueInv, NEW s \in Server, node[s] # Absent, Portable(request.value)
             PROVE  \/ node[s].value = CarriedValue(request.value)
                    \/ s = Home /\ node[s].value = request.value
  BY DEF ValuesSurvive
<1>1. IsRequest(request) /\ VariantOK(request.value) /\ IsAttributes(request)
  BY ConstantsOK DEF Inv, IsRequest, AttributesOK
<1>2. ~Untyped(request.value) /\ Passed(request.value).value = CarriedValue(request.value)
  BY <1>1, PortablePassed
<1>3. CopyOf(request, node[s]) \/ (s = Home /\ node[s] = Created(request))
  BY DEF ValueInv, NodesOK, NodeOK
<1>4. Created(request).value = request.value
  BY <1>1, CreatedFields
<1>5. CASE CopyOf(request, node[s])
  <2> DEFINE x == node[s].value  y == Passed(request.value).value
  <2>1. VariantOK(x) /\ VariantOK(y) /\ WithoutReals(x) = WithoutReals(y)
    BY <1>1, <1>2, <1>5, PassedOnce DEF CopyOf, ValueInv, NodesOK, NodeOK, AttributesOK
  <2>2. y.type \notin Real
    <3>1. request.value.type \notin Real
      BY DEF Portable, Real
    <3>2. CarriedValue(request.value).type = request.value.type
      BY <1>1, CarriedTyped
    <3>3. QED
      BY <1>2, <3>1, <3>2
  <2> HIDE DEF x, y
  <2>3. x = y
    BY <2>1, <2>2, RealsAside
  <2>4. QED
    BY <1>2, <2>3 DEF x, y
<1>6. QED
  BY <1>3, <1>4, <1>5

\* A value that the JSON form can hold reaches every server that has the node, with
\* all its elements and dimensions (zkUA_jsonEncode_UA_Variant against
\* zkUA_jsonDecode_UA_Variant), through any number of copies of copies.
THEOREM ValuesArrive == Spec => []ValuesSurvive
BY ValueHolds, ValuesCarried, PTL

\* that copies are alike,
LEMMA CopiesAlike == Inv /\ ValueInv => CopiesAgree
<1> SUFFICES ASSUME Inv, ValueInv, NEW s \in Server \ {Home}, NEW t \in Server \ {Home},
                    node[s] # Absent, node[t] # Absent, ~Untyped(request.value)
             PROVE  Settled(node[s]) = Settled(node[t])
  BY DEF CopiesAgree
<1> DEFINE q == request  m == node[s]  n == node[t]
           F(x) == [f \in Flag |-> IF f = "userAccessLevel" \/ (f = "eventNotifier" /\ x.class = "View")
                                     THEN 0 ELSE x.flag[f]]
<1>1. /\ NodeKept(s) /\ NodeKept(t) /\ CopyOf(q, m) /\ CopyOf(q, n)
  BY DEF Inv, ValueInv, NodesOK, NodeOK
<1>2. /\ IsAttributes(m) /\ IsAttributes(n) /\ m.class = q.class /\ n.class = q.class
      /\ \A x \in TextField : m[x] = n[x]
      /\ m.browseName = m.displayName /\ n.browseName = n.displayName
      /\ \A f \in CarriedFlag(q.class) \cap FlagsOf[q.class] : m.flag[f] = n.flag[f]
  BY <1>1 DEF NodeKept, Kept
<1>3. /\ m.dims = n.dims /\ m.dimsSize = n.dimsSize
      /\ WithoutReals(m.value) = WithoutReals(n.value)
      /\ m.dataType = n.dataType /\ m.valueRank = n.valueRank
      /\ \A f \in Lost(q.class) : m.flag[f] = n.flag[f]
  BY <1>1 DEF CopyOf
<1> HIDE DEF q, m, n
<1>4. \A f \in Flag \ Loose(q.class) : m.flag[f] = n.flag[f]
  BY <1>2, <1>3 DEF Lost
<1>5. F(m) = F(n)
  BY <1>2, <1>4 DEF Loose
<1>6. ASSUME NEW x, IsAttributes(x)
      PROVE  /\ Settled(x) = [x EXCEPT !.value = WithoutReals(x.value), !.flag = F(x)]
             /\ DOMAIN x = Attribute /\ x = [y \in Attribute |-> x[y]]
  BY <1>6 DEF Settled, IsAttributes, Attribute
<1>7. \A y \in Attribute \ {"flag", "value"} : m[y] = n[y]
  BY <1>2, <1>3 DEF Attribute, TextField
<1> HIDE DEF F
<1>8. [m EXCEPT !.value = WithoutReals(m.value), !.flag = F(m)]
        = [n EXCEPT !.value = WithoutReals(n.value), !.flag = F(n)]
  <2> DEFINE w == WithoutReals(m.value)
  <2>1. w = WithoutReals(n.value)
    BY <1>3
  <2> HIDE DEF w
  <2>2. [m EXCEPT !.value = w, !.flag = F(m)] = [n EXCEPT !.value = w, !.flag = F(m)]
    BY <1>2, <1>6, <1>7
  <2>3. QED
    BY <1>5, <2>1, <2>2 DEF w
<1>9. Settled(m) = Settled(n)
  <2>1. Settled(m) = [m EXCEPT !.value = WithoutReals(m.value), !.flag = F(m)]
    BY <1>2, <1>6, Zenon
  <2>2. Settled(n) = [n EXCEPT !.value = WithoutReals(n.value), !.flag = F(n)]
    BY <1>2, <1>6, Zenon
  <2>3. QED
    BY <1>8, <2>1, <2>2, Zenon
<1>10. QED
  BY <1>9 DEF m, n

\* All copies of a node are alike, whether made from the first server's pack or from
\* a copy of a copy, but for bytes that nobody initialised and the numbers in reals:
\* decoding what was decoded and encoded before changes nothing more of the others.
THEOREM CopiesAlwaysAgree == Spec => []CopiesAgree
BY ValueHolds, CopiesAlike, PTL

\* and who holds the node.
LEMMA HoldersReached == Inv /\ ValueInv => NodesReachEveryServer
BY DEF ValueInv, Holders, NodesReachEveryServer

\* A node that the first server took, and whose value, type and dimensions JSON
\* carries, is accepted by the store of every server that has seen its last pack
\* (createNodeFromAttributes judges what zkUA_jsonDecode_zkNodeToUa left).
THEOREM NodesReach == Spec => []NodesReachEveryServer
BY ValueHolds, HoldersReached, PTL
=============================================================================
