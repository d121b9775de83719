-------------------------- MODULE PcmConfig_proofs --------------------------
(***************************************************************************)
(* Theorems about the configuration daemon, for any number of connections, *)
(* files, messages and failures, and however messages are cut.             *)
(***************************************************************************)
EXTENDS PcmConfig, FiniteSetTheorems, SequenceTheorems, TLAPS

AnyPiece == [msg : Message, at : Nat, part : Part]
Contents == Seq(AnyPiece)
Status == {"success", "input-error", "file-error", "system-error"}
Answer == [status : Status, contents : Contents]
Answers == Seq(Answer)
Busy == {"write", "parse", "check", "move", "run", "reply"}

TypeInv ==
  /\ open \subseteq Conn
  /\ inbox \in [Conn -> Contents]
  /\ json_in \in [Conn -> Contents]
  /\ replies \in [Conn -> Answers]
  /\ tmp \in Contents \union {None}
  /\ policy \in [File -> Contents \union {None}]
  /\ applied \in [File -> Contents \union {None}]
  /\ apache \in BOOLEAN
  /\ pc \in Busy \union {"idle"}
  /\ wsi \in Conn \union {None}
  /\ pc # "idle" => wsi \in Conn
  /\ status \in Status
  /\ sent \in [Conn -> Seq(Message)]
  /\ sends \in Nat /\ faults \in Nat

LEMMA MessageType ==
  ASSUME NEW m \in Message
  PROVE  /\ m.parts \in Seq(Part) /\ Len(m.parts) \in Nat /\ Len(m.parts) > 0
         /\ DOMAIN m.parts = 1 .. Len(m.parts)
         /\ m.file \in File
<1>1. m.parts \in Seq(Part) \ {<<>>} /\ m.file \in File
  BY MessageAssumption
<1>2. QED
  BY <1>1

----------------------------------------------------------------------------
(***************************************************************************)
(* The contents of a message.  A message with a brace has one in them, so  *)
(* that nothing can follow it in data whose only brace is the last part.   *)
(***************************************************************************)
LEMMA PiecesType ==
  ASSUME NEW m \in Message
  PROVE  /\ Pieces(m) \in Contents
         /\ Len(Pieces(m)) = Len(m.parts)
         /\ \A i \in DOMAIN m.parts : Pieces(m)[i] = Piece(m, i)
         /\ \A i \in DOMAIN m.parts : Piece(m, i) \in AnyPiece
<1>1. \A i \in DOMAIN m.parts : Piece(m, i) \in AnyPiece
  BY MessageType DEF Piece, AnyPiece
<1>2. Pieces(m) \in [1 .. Len(m.parts) -> AnyPiece]
  BY <1>1, MessageType DEF Pieces
<1>3. QED
  BY <1>1, <1>2, MessageType DEF Pieces, Contents

LEMMA StoredFinite ==
  ASSUME NEW m \in Message
  PROVE  /\ Stored(m) \subseteq 1 .. Len(m.parts)
         /\ IsFiniteSet(Stored(m))
         /\ Cardinality(Stored(m)) \in Nat
<1>1. Stored(m) \subseteq 1 .. Len(m.parts)
  BY MessageType DEF Stored
<1>2. IsFiniteSet(1 .. Len(m.parts))
  BY MessageType, FS_Interval
<1>3. IsFiniteSet(Stored(m))
  BY <1>1, <1>2, FS_Subset
<1>4. QED
  BY <1>1, <1>3, FS_CardinalityType

\* The parts that are stored up to the i-th.
UpTo(m, i) == {j \in Stored(m) : j <= i}

\* Every part that is stored has its place: Nth enumerates all of Stored.
LEMMA NthOf ==
  ASSUME NEW m \in Message, NEW k \in Stored(m)
  PROVE  \E n \in 1 .. Cardinality(Stored(m)) : Nth(m, n) = k
<1> DEFINE n == Cardinality(UpTo(m, k))
<1> USE StoredFinite
<1>1. \A i \in Stored(m) : /\ IsFiniteSet(UpTo(m, i))
                           /\ Cardinality(UpTo(m, i)) \in Nat
  BY FS_Subset, FS_CardinalityType DEF UpTo
<1>2. n \in 1 .. Cardinality(Stored(m))
  <2>1. UpTo(m, k) \subseteq Stored(m) /\ k \in UpTo(m, k)
    BY DEF UpTo
  <2>2. n <= Cardinality(Stored(m))
    BY <2>1, FS_Subset
  <2>3. n # 0
    BY <1>1, <2>1, FS_EmptySet
  <2>4. QED
    BY <1>1, <2>2, <2>3
<1>3. ASSUME NEW i \in Stored(m), NEW j \in Stored(m), i < j
      PROVE  Cardinality(UpTo(m, i)) < Cardinality(UpTo(m, j))
  <2>1. UpTo(m, i) \subseteq UpTo(m, j) /\ UpTo(m, i) # UpTo(m, j)
    <3>1. j \in UpTo(m, j) /\ j \notin UpTo(m, i)
      BY <1>3 DEF UpTo
    <3>2. QED
      BY <1>3, <3>1 DEF UpTo
  <2>2. /\ Cardinality(UpTo(m, i)) <= Cardinality(UpTo(m, j))
        /\ Cardinality(UpTo(m, i)) # Cardinality(UpTo(m, j))
    BY <1>1, <2>1, FS_Subset
  <2>3. QED
    BY <1>1, <2>2
<1>4. \A i \in Stored(m) : Cardinality(UpTo(m, i)) = n => i = k
  <2> SUFFICES ASSUME NEW i \in Stored(m), Cardinality(UpTo(m, i)) = n
               PROVE  i = k
    OBVIOUS
  <2>1. ~(i < k) /\ ~(k < i)
    BY <1>1, <1>3
  <2>2. QED
    BY <2>1
<1>5. Nth(m, n) = k
  <2>1. Nth(m, n) = CHOOSE i \in Stored(m) : Cardinality(UpTo(m, i)) = n
    BY DEF Nth, UpTo
  <2>2. QED
    BY <1>4, <2>1
<1>6. QED
  BY <1>2, <1>5

LEMMA WholeLength ==
  ASSUME NEW m \in Message
  PROVE  /\ Len(Whole(m)) = Cardinality(Stored(m))
         /\ DOMAIN Whole(m) = 1 .. Cardinality(Stored(m))
         /\ Len(Whole(m)) \in Nat
BY StoredFinite DEF Whole

LEMMA WholeHasBrace ==
  ASSUME NEW m \in Message, Braced(m)
  PROVE  \E n \in 1 .. Len(Whole(m)) : Whole(m)[n].part = "brace"
<1>1. PICK k \in DOMAIN m.parts : m.parts[k] = "brace"
  BY DEF Braced
<1>2. k \in Stored(m)
  BY <1>1 DEF Stored
<1>3. PICK n \in 1 .. Cardinality(Stored(m)) : Nth(m, n) = k
  BY <1>2, NthOf
<1>4. Whole(m)[n].part = "brace"
  BY <1>1, <1>3 DEF Whole, Piece
<1>5. QED
  BY <1>3, <1>4, WholeLength

\* What a prefix says of each place.
LEMMA PrefixPlaces ==
  ASSUME NEW m \in Message, NEW d \in Contents, IsPrefix(Whole(m), d)
  PROVE  /\ Len(Whole(m)) <= Len(d)
         /\ \A n \in 1 .. Len(Whole(m)) : d[n] = Whole(m)[n]
<1> DEFINE w == Whole(m)
           l == Len(w)
<1> HIDE DEF w
<1>1. l \in Nat /\ DOMAIN w = 1 .. l
  BY WholeLength DEF w
<1>2. l <= Len(d) /\ SubSeq(w, 1, l) = SubSeq(d, 1, l)
  BY DEF IsPrefix, w
<1>3. \A n \in 1 .. l : SubSeq(w, 1, l)[n] = w[n] /\ SubSeq(d, 1, l)[n] = d[n]
  BY <1>1, <1>2 DEF Contents
<1>4. QED
  BY <1>2, <1>3 DEF w

LEMMA BracedIsAll ==
  ASSUME NEW m \in Message, Braced(m), NEW d \in Contents,
         IsPrefix(Whole(m), d),
         \A i \in 1 .. Len(d) : d[i].part = "brace" => i = Len(d)
  PROVE  d = Whole(m)
<1>1. PICK n \in 1 .. Len(Whole(m)) : Whole(m)[n].part = "brace"
  BY WholeHasBrace
<1>2. Len(Whole(m)) <= Len(d) /\ d[n] = Whole(m)[n]
  BY PrefixPlaces
<1>3. Len(Whole(m)) = Len(d)
  BY <1>1, <1>2, WholeLength DEF Contents
<1>4. \A i \in 1 .. Len(d) : d[i] = Whole(m)[i]
  BY <1>3, PrefixPlaces
<1>5. DOMAIN Whole(m) = 1 .. Len(d)
  BY <1>3, WholeLength
<1>6. Whole(m) = [i \in 1 .. Len(d) |-> Whole(m)[i]]
  BY <1>5 DEF Whole
<1>7. d = [i \in 1 .. Len(d) |-> d[i]]
  BY DEF Contents
<1>8. QED
  BY <1>4, <1>6, <1>7

----------------------------------------------------------------------------
(***************************************************************************)
(* The stages of a configuration.                                          *)
(***************************************************************************)
\* The file of the data that are being processed.
Target == First(json_in[wsi]).file

WholeFor(d, f) ==
  LET m == First(d)
  IN /\ IsPrefix(Whole(m), d)
     /\ Braced(m) => d = Whole(m)
     /\ m.file = f /\ m.json /\ m.named

\* Data with a brace in them are being processed: their last part has it.
BraceInv ==
  \A c \in Conn : \A i \in 1 .. Len(json_in[c]) :
    json_in[c][i].part = "brace" =>
      i = Len(json_in[c]) /\ pc \in Busy /\ wsi = c

\* What each stage knows of the data it passes to the next.
StageInv ==
  /\ pc \in Busy \ {"reply"} => json_in[wsi] # <<>>
  /\ pc \in {"parse", "check", "move"} => tmp = json_in[wsi]
  /\ pc \in {"check", "move", "run"} =>
       Parses(json_in[wsi]) /\ First(json_in[wsi]).named
  /\ pc = "run" => policy[Target] = json_in[wsi]
  /\ pc = "reply" /\ status = "success" =>
       policy[Target] = json_in[wsi] /\ applied[Target] = json_in[wsi]

AppliedInv ==
  faults = 0 => \A f \in File :
    \/ pc = "run" /\ f = Target
    \/ policy[f] = applied[f]
    \/ ~Takes(policy[f])

PolicyInv ==
  \A f \in File : policy[f] # None => WholeFor(policy[f], f)

Inv == BraceInv /\ StageInv /\ AppliedInv /\ PolicyInv

LEMMA NoContents == <<>> \in Contents /\ <<>> \in Answers
BY DEF Contents, Answers

LEMMA AnswerType ==
  ASSUME NEW s \in Status, NEW d \in Contents, NEW a \in Answers
  PROVE  Append(a, [status |-> s, contents |-> d]) \in Answers
<1>1. [status |-> s, contents |-> d] \in Answer
  BY DEF Answer
<1>2. QED
  BY <1>1 DEF Answers

LEMMA FirstType ==
  ASSUME NEW d \in Contents, d # <<>>
  PROVE  First(d) \in Message /\ First(d).file \in File
<1>1. Head(d) \in AnyPiece
  BY DEF Contents
<1>2. First(d) \in Message
  BY <1>1 DEF First, AnyPiece
<1>3. QED
  BY <1>2, MessageType

LEMMA InitInv == Init => TypeInv /\ Inv
<1> SUFFICES ASSUME Init PROVE TypeInv /\ Inv
  OBVIOUS
<1>1. TypeInv
  BY NoContents, MessageAssumption DEF Init, TypeInv, Status, Busy
<1>2. BraceInv /\ StageInv /\ AppliedInv
  BY DEF Init, BraceInv, StageInv, AppliedInv, Busy
<1>3. PolicyInv
  BY DEF Init, PolicyInv
<1>4. QED
  BY <1>1, <1>2, <1>3 DEF Inv

\* The actions of clients and of the machine.
LEMMA OutsideInv ==
  ASSUME TypeInv, Inv,
         \/ \E c \in Conn : Established(c) \/ Closed(c)
         \/ \E c \in Conn, m \in Message : ClientSend(c, m)
         \/ Apache \/ Crash
  PROVE  TypeInv' /\ Inv'
<1> USE DEF thread, wire
<1>1. ASSUME NEW c \in Conn, Established(c) PROVE TypeInv' /\ Inv'
  <2>1. TypeInv'
    <3>1. /\ open' \subseteq Conn /\ json_in' \in [Conn -> Contents]
          /\ replies' \in [Conn -> Answers]
          /\ sent' \in [Conn -> Seq(Message)]
      <4>1. open' \subseteq Conn /\ json_in' \in [Conn -> Contents]
        BY <1>1, NoContents DEF TypeInv, Established
      <4>2. replies' \in [Conn -> Answers]
        BY <1>1, NoContents DEF TypeInv, Established
      <4>3. sent' \in [Conn -> Seq(Message)]
        BY <1>1 DEF TypeInv, Established
      <4>4. QED
        BY <4>1, <4>2, <4>3
    <3>2. UNCHANGED <<inbox, tmp, policy, applied, apache, pc, wsi, status,
                      sends, faults>>
      BY <1>1 DEF Established
    <3>3. QED
      BY <3>1, <3>2 DEF TypeInv
  <2>2. BraceInv' /\ StageInv' /\ AppliedInv'
    BY <1>1 DEF TypeInv, Inv, BraceInv, StageInv, AppliedInv, Established, Busy
  <2>3. PolicyInv'
    BY <1>1 DEF Inv, PolicyInv, Established
  <2>4. QED
    BY <2>1, <2>2, <2>3 DEF Inv
<1>2. ASSUME NEW c \in Conn, Closed(c) PROVE TypeInv' /\ Inv'
  <2>1. TypeInv'
    <3>1. open' \subseteq Conn /\ inbox' \in [Conn -> Contents]
      BY <1>2 DEF TypeInv, Closed, Contents
    <3>2. UNCHANGED <<json_in, replies, tmp, policy, applied, apache, pc, wsi,
                      status, sent, sends, faults>>
      BY <1>2 DEF Closed
    <3>3. QED
      BY <3>1, <3>2 DEF TypeInv
  <2>2. BraceInv' /\ StageInv' /\ AppliedInv'
    BY <1>2 DEF Inv, BraceInv, StageInv, AppliedInv, Closed, Target
  <2>3. PolicyInv'
    BY <1>2 DEF Inv, PolicyInv, Closed
  <2>4. QED
    BY <2>1, <2>2, <2>3 DEF Inv
<1>3. ASSUME NEW c \in Conn, NEW m \in Message, ClientSend(c, m)
      PROVE  TypeInv' /\ Inv'
  <2>1. inbox[c] \o Pieces(m) \in Contents /\ Append(sent[c], m) \in Seq(Message)
    BY PiecesType DEF TypeInv, Contents
  <2>2. TypeInv'
    <3>1. /\ inbox' \in [Conn -> Contents] /\ sent' \in [Conn -> Seq(Message)]
          /\ sends' \in Nat
      BY <1>3, <2>1 DEF TypeInv, ClientSend
    <3>2. UNCHANGED <<open, json_in, replies, tmp, policy, applied, apache, pc,
                      wsi, status, faults>>
      BY <1>3 DEF ClientSend
    <3>3. QED
      BY <3>1, <3>2 DEF TypeInv
  <2>3. BraceInv' /\ StageInv' /\ AppliedInv'
    BY <1>3 DEF Inv, BraceInv, StageInv, AppliedInv, ClientSend, Target
  <2>4. PolicyInv'
    BY <1>3 DEF Inv, PolicyInv, ClientSend
  <2>5. QED
    BY <2>2, <2>3, <2>4 DEF Inv
<1>4. CASE Apache
  <2>1. TypeInv'
    BY <1>4 DEF TypeInv, Apache
  <2>2. BraceInv' /\ StageInv' /\ AppliedInv'
    BY <1>4 DEF Inv, BraceInv, StageInv, AppliedInv, Apache, Target
  <2>3. PolicyInv'
    BY <1>4 DEF Inv, PolicyInv, Apache
  <2>4. QED
    BY <2>1, <2>2, <2>3 DEF Inv
<1>5. CASE Crash
  <2>1. TypeInv'
    <3>1. /\ open' \subseteq Conn /\ inbox' \in [Conn -> Contents]
          /\ json_in' \in [Conn -> Contents] /\ faults' \in Nat
          /\ pc' = "idle" /\ wsi' = None /\ status' = "success"
      BY <1>5 DEF TypeInv, Crash, Contents
    <3>2. UNCHANGED <<replies, tmp, policy, applied, apache, sent, sends>>
      BY <1>5 DEF Crash
    <3>3. QED
      BY <3>1, <3>2 DEF TypeInv, Status
  <2>2. BraceInv' /\ StageInv' /\ AppliedInv'
    BY <1>5 DEF TypeInv, BraceInv, StageInv, AppliedInv, Crash, Busy
  <2>3. PolicyInv'
    BY <1>5 DEF Inv, PolicyInv, Crash
  <2>4. QED
    BY <2>1, <2>2, <2>3 DEF Inv
<1>6. QED
  BY <1>1, <1>2, <1>3, <1>4, <1>5

LEMMA ReceiveInv ==
  ASSUME TypeInv, Inv, NEW c \in Conn, Receive(c)
  PROVE  TypeInv' /\ Inv'
<1> DEFINE x == Head(inbox[c])
<1> USE DEF thread
<1>1. /\ x \in AnyPiece /\ Tail(inbox[c]) \in Contents
      /\ json_in[c] \in Contents
      /\ pc = "idle"
  BY DEF Receive, TypeInv, Contents
<1>2. UNCHANGED <<policy, applied, faults, tmp>>
  BY DEF Receive
<1>3. PolicyInv'
  BY <1>2 DEF Inv, PolicyInv
<1>4. AppliedInv'
  BY <1>1, <1>2 DEF Inv, AppliedInv
<1>5. CASE x.part = "empty"
  <2>1. /\ json_in' = json_in /\ pc' = "reply" /\ wsi' = c
        /\ status' = "input-error"
    BY <1>5 DEF Receive, Reply
  <2>2. TypeInv'
    BY <1>1, <2>1 DEF Receive, TypeInv, Status, Busy
  <2>3. BraceInv' /\ StageInv'
    BY <1>1, <2>1 DEF Inv, BraceInv, StageInv, Busy
  <2>4. QED
    BY <1>3, <1>4, <2>2, <2>3 DEF Inv
<1>6. CASE x.part # "empty"
  <2> DEFINE d == Append(json_in[c], x)
  <2>1. /\ json_in' = [json_in EXCEPT ![c] = d]
        /\ x.part = "brace" => pc' = "write" /\ status' = "success" /\ wsi' = c
        /\ x.part # "brace" => pc' = pc /\ wsi' = wsi /\ status' = status
    BY <1>6 DEF Receive
  <2>2. /\ d \in Contents /\ d # <<>> /\ Len(d) = Len(json_in[c]) + 1
        /\ \A i \in 1 .. Len(json_in[c]) : d[i] = json_in[c][i]
        /\ d[Len(d)] = x
    BY <1>1 DEF Contents
  <2>3. TypeInv'
    BY <1>1, <2>1, <2>2 DEF Receive, TypeInv, Status, Busy
  <2>4. \A k \in Conn : \A i \in 1 .. Len(json_in[k]) : json_in[k][i].part # "brace"
    BY <1>1 DEF Inv, BraceInv, Busy
  <2>5. json_in'[c] = d /\ \A k \in Conn : k # c => json_in'[k] = json_in[k]
    BY <2>1 DEF TypeInv
  <2>6. \A i \in 1 .. Len(d) : d[i].part = "brace" => i = Len(d) /\ x.part = "brace"
    <3> SUFFICES ASSUME NEW i \in 1 .. Len(d), d[i].part = "brace"
                 PROVE  i = Len(d)
      BY <2>2
    <3>1. i \notin 1 .. Len(json_in[c])
      BY <2>2, <2>4
    <3>2. QED
      BY <1>1, <2>2, <3>1 DEF Contents
  <2>7. BraceInv'
    <3> SUFFICES ASSUME NEW k \in Conn, NEW i \in 1 .. Len(json_in'[k]),
                        json_in'[k][i].part = "brace"
                 PROVE  i = Len(json_in'[k]) /\ pc' \in Busy /\ wsi' = k
      BY DEF BraceInv
    <3>1. k = c
      BY <2>4, <2>5
    <3>2. QED
      BY <2>1, <2>5, <2>6, <3>1 DEF Busy
  <2>8. StageInv'
    BY <1>1, <2>1, <2>2, <2>5 DEF StageInv, Busy
  <2>9. QED
    BY <1>3, <1>4, <2>3, <2>7, <2>8 DEF Inv
<1>7. QED
  BY <1>5, <1>6

\* What holds of the data in every stage.
LEMMA Processed ==
  ASSUME TypeInv, Inv, pc \in Busy \ {"reply"}
  PROVE  /\ wsi \in Conn /\ json_in[wsi] \in Contents /\ json_in[wsi] # <<>>
         /\ First(json_in[wsi]) \in Message /\ Target \in File
<1>1. wsi \in Conn /\ json_in[wsi] \in Contents /\ json_in[wsi] # <<>>
  BY DEF TypeInv, Inv, StageInv, Busy
<1>2. QED
  BY <1>1, FirstType DEF Target

LEMMA StagesInv ==
  ASSUME TypeInv, Inv,
         WriteTmp \/ Parse \/ CheckApache \/ Move \/ RunScript \/ SendReply
  PROVE  TypeInv' /\ Inv'
<1> USE DEF thread, wire, Reply
<1>1. CASE WriteTmp
  <2>1. TypeInv'
    <3>1. /\ tmp' \in Contents \union {None} /\ faults' \in Nat
          /\ pc' \in Busy /\ status' \in Status
      <4>1. json_in[wsi] \in Contents
        BY <1>1, Processed DEF WriteTmp, Busy
      <4>2. tmp' \in Contents \union {None}
        BY <1>1, <4>1, NoContents DEF TypeInv, WriteTmp
      <4>3. faults' \in Nat
        BY <1>1 DEF TypeInv, WriteTmp
      <4>4. pc' \in Busy /\ status' \in Status
        BY <1>1 DEF TypeInv, WriteTmp, Status, Busy
      <4>5. QED
        BY <4>2, <4>3, <4>4
    <3>2. UNCHANGED <<open, inbox, json_in, replies, policy, applied, apache,
                      wsi, sent, sends>> /\ pc # "idle"
      BY <1>1 DEF WriteTmp
    <3>3. QED
      BY <3>1, <3>2 DEF TypeInv
  <2>2. BraceInv' /\ StageInv' /\ AppliedInv'
    BY <1>1, MessageAssumption
       DEF TypeInv, Inv, BraceInv, StageInv, AppliedInv, WriteTmp, Busy, Target
  <2>3. PolicyInv'
    BY <1>1 DEF Inv, PolicyInv, WriteTmp
  <2>4. QED
    BY <2>1, <2>2, <2>3 DEF Inv
<1>2. CASE Parse
  <2>1. TypeInv'
    BY <1>2 DEF TypeInv, Parse, Status, Busy
  <2>2. BraceInv' /\ StageInv' /\ AppliedInv'
    BY <1>2 DEF Inv, BraceInv, StageInv, AppliedInv, Parse, Busy, Target
  <2>3. PolicyInv'
    BY <1>2 DEF Inv, PolicyInv, Parse
  <2>4. QED
    BY <2>1, <2>2, <2>3 DEF Inv
<1>3. CASE CheckApache
  <2>1. TypeInv'
    BY <1>3 DEF TypeInv, CheckApache, Status, Busy
  <2>2. BraceInv' /\ StageInv' /\ AppliedInv'
    BY <1>3 DEF Inv, BraceInv, StageInv, AppliedInv, CheckApache, Busy, Target
  <2>3. PolicyInv'
    BY <1>3 DEF Inv, PolicyInv, CheckApache
  <2>4. QED
    BY <2>1, <2>2, <2>3 DEF Inv
<1>4. CASE Move
  <2> DEFINE d == json_in[wsi]
  <2>1. /\ pc = "move" /\ tmp = d /\ wsi \in Conn /\ d \in Contents /\ d # <<>>
        /\ First(d) \in Message /\ Target \in File /\ First(d).file = Target
        /\ Parses(d) /\ First(d).named
    BY <1>4, Processed DEF Move, Inv, StageInv, Busy, Target
  <2>2. UNCHANGED <<json_in, wsi, applied>>
    BY <1>4 DEF Move
  <2>3. BraceInv'
    BY <1>4, <2>2 DEF Inv, BraceInv, Move, Busy
  <2>4. CASE /\ policy' = [policy EXCEPT ![Target] = tmp]
             /\ pc' = "run" /\ tmp' = None /\ UNCHANGED <<status, faults>>
    <3>1. TypeInv'
      BY <1>4, <2>1, <2>4 DEF Move, TypeInv, Busy
    <3>2. policy'[Target] = d /\ \A f \in File : f # Target => policy'[f] = policy[f]
      BY <2>1, <2>4 DEF TypeInv
    <3>3. Target' = Target
      BY <2>2 DEF Target
    <3>4. StageInv'
      BY <2>1, <2>2, <2>4, <3>2, <3>3 DEF StageInv
    <3>5. AppliedInv'
      BY <2>1, <2>2, <2>4, <3>2, <3>3 DEF Inv, AppliedInv
    <3>6. WholeFor(d, Target)
      <4>1. Braced(First(d)) => d = Whole(First(d))
        <5>1. \A i \in 1 .. Len(d) : d[i].part = "brace" => i = Len(d)
          BY <2>1 DEF Inv, BraceInv
        <5>2. QED
          BY <2>1, <5>1, BracedIsAll DEF Parses
      <4>2. QED
        BY <2>1, <4>1 DEF Parses, WholeFor
    <3>7. PolicyInv'
      BY <3>2, <3>6 DEF Inv, PolicyInv
    <3>8. QED
      BY <2>3, <3>1, <3>4, <3>5, <3>7 DEF Inv
  <2>5. CASE /\ faults' = faults + 1 /\ UNCHANGED <<tmp, policy>>
             /\ pc' = "reply" /\ status' = "system-error"
    <3>1. TypeInv'
      <4>1. UNCHANGED <<open, inbox, json_in, replies, applied, apache, wsi,
                        sent, sends>>
        BY <1>4 DEF Move
      <4>2. faults' \in Nat
        BY <2>5 DEF TypeInv
      <4>3. pc' \in Busy /\ status' \in Status /\ wsi \in Conn
        BY <2>1, <2>5 DEF Status, Busy
      <4>4. QED
        BY <2>5, <4>1, <4>2, <4>3 DEF TypeInv
    <3>2. StageInv' /\ AppliedInv'
      BY <2>5 DEF TypeInv, StageInv, AppliedInv, Busy
    <3>3. PolicyInv'
      BY <2>5 DEF Inv, PolicyInv
    <3>4. QED
      BY <2>3, <3>1, <3>2, <3>3 DEF Inv
  <2>6. QED
    BY <1>4, <2>4, <2>5 DEF Move, Target
<1>5. CASE RunScript
  <2>1. /\ pc = "run" /\ pc' = "reply" /\ wsi \in Conn
        /\ json_in[wsi] \in Contents /\ Target \in File
        /\ policy[Target] = json_in[wsi]
    BY <1>5, Processed DEF RunScript, Inv, StageInv, Busy
  <2>2. UNCHANGED <<json_in, wsi, tmp, policy>> /\ Target' = Target
    BY <1>5 DEF RunScript, Target
  <2>3. BraceInv' /\ PolicyInv'
    BY <2>1, <2>2 DEF Inv, BraceInv, PolicyInv, Busy
  <2>4. CASE /\ applied' = [applied EXCEPT ![Target] = policy[Target]]
             /\ status' = "success" /\ UNCHANGED faults
    <3>1. TypeInv'
      BY <1>5, <2>1, <2>4 DEF RunScript, TypeInv, Status, Busy
    <3>2. /\ applied'[Target] = policy[Target]
          /\ \A f \in File : f # Target => applied'[f] = applied[f]
      BY <2>1, <2>4 DEF TypeInv
    <3>3. StageInv' /\ AppliedInv'
      BY <2>1, <2>2, <2>4, <3>2 DEF Inv, StageInv, AppliedInv, Busy
    <3>4. QED
      BY <2>3, <3>1, <3>3 DEF Inv
  <2>5. CASE /\ status' = "system-error" /\ UNCHANGED applied
             /\ \/ ~Takes(policy[Target]) /\ UNCHANGED faults
                \/ faults' = faults + 1
    <3>1. TypeInv'
      <4>1. UNCHANGED <<open, inbox, json_in, replies, tmp, policy, apache,
                        wsi, sent, sends>>
        BY <1>5 DEF RunScript
      <4>2. faults' \in Nat
        BY <2>5 DEF TypeInv
      <4>3. pc' \in Busy /\ status' \in Status /\ wsi \in Conn
        BY <2>1, <2>5 DEF Status, Busy
      <4>4. QED
        BY <2>5, <4>1, <4>2, <4>3 DEF TypeInv
    <3>2. StageInv' /\ AppliedInv'
      BY <2>1, <2>2, <2>5 DEF TypeInv, Inv, StageInv, AppliedInv, Busy
    <3>3. QED
      BY <2>3, <3>1, <3>2 DEF Inv
  <2>6. QED
    BY <1>5, <2>4, <2>5 DEF RunScript, Target
<1>6. CASE SendReply
  <2>1. wsi \in Conn /\ json_in[wsi] \in Contents /\ pc = "reply"
    BY <1>6 DEF SendReply, TypeInv
  <2>2. /\ json_in' = [json_in EXCEPT ![wsi] = <<>>] /\ pc' = "idle"
        /\ wsi' = None /\ status' = "success"
        /\ UNCHANGED <<tmp, policy, applied>>
        /\ faults' \in {faults, faults + 1}
    BY <1>6 DEF SendReply, Done
  <2>3. Append(replies[wsi], [status |-> status, contents |-> json_in[wsi]])
          \in Answers
    BY <2>1, AnswerType DEF TypeInv
  <2>4. TypeInv'
    <3>1. /\ replies' \in [Conn -> Answers]
          /\ json_in' \in [Conn -> Contents] /\ faults' \in Nat
      <4>1. replies' \in [Conn -> Answers]
        BY <1>6, <2>1, <2>3 DEF SendReply, TypeInv
      <4>2. json_in' \in [Conn -> Contents]
        BY <2>2, NoContents DEF TypeInv
      <4>3. faults' \in Nat
        BY <2>2 DEF TypeInv
      <4>4. QED
        BY <4>1, <4>2, <4>3
    <3>2. UNCHANGED <<open, inbox, apache, sent, sends>>
      BY <1>6 DEF SendReply
    <3>3. QED
      BY <2>2, <3>1, <3>2 DEF TypeInv, Status
  <2>5. BraceInv'
    <3>1. Len(json_in'[wsi]) = 0 /\ \A c \in Conn : c # wsi => json_in'[c] = json_in[c]
      BY <2>1, <2>2 DEF TypeInv
    <3>2. QED
      BY <3>1 DEF Inv, BraceInv
  <2>6. StageInv' /\ AppliedInv'
    BY <2>1, <2>2 DEF TypeInv, Inv, StageInv, AppliedInv, Busy
  <2>7. PolicyInv'
    BY <2>2 DEF Inv, PolicyInv
  <2>8. QED
    BY <2>4, <2>5, <2>6, <2>7 DEF Inv
<1>7. QED
  BY <1>1, <1>2, <1>3, <1>4, <1>5, <1>6

LEMMA Always == Spec => [](TypeInv /\ Inv)
<1>1. TypeInv /\ Inv /\ UNCHANGED vars => (TypeInv /\ Inv)'
  <2> SUFFICES ASSUME TypeInv, Inv, UNCHANGED vars PROVE TypeInv' /\ Inv'
    OBVIOUS
  <2> USE DEF vars, wire, thread
  <2>1. TypeInv'
    BY DEF TypeInv
  <2>2. BraceInv' /\ StageInv' /\ AppliedInv'
    BY DEF Inv, BraceInv, StageInv, AppliedInv, Target
  <2>3. PolicyInv'
    BY DEF Inv, PolicyInv
  <2>4. QED
    BY <2>1, <2>2, <2>3 DEF Inv
<1>2. TypeInv /\ Inv /\ Next => (TypeInv /\ Inv)'
  BY OutsideInv, ReceiveInv, StagesInv DEF Next, Service
<1>3. TypeInv /\ Inv /\ [Next]_vars => (TypeInv /\ Inv)'
  BY <1>1, <1>2
<1>4. QED
  BY InitInv, <1>3, PTL DEF Spec

\* "success" is only answered when what the connection sent is in the policy
\* file and the script has succeeded with it, whichever steps failed before
\* and wherever the daemon was killed.
THEOREM Answered == Spec => []SuccessIsApplied
<1>1. TypeInv /\ Inv => SuccessIsApplied
  BY DEF Inv, StageInv, SuccessIsApplied, Target
<1>2. QED
  BY <1>1, Always, PTL

\* A policy file begins with one whole message that was meant for it, and is
\* that message if it has a brace to end it.
THEOREM Policies == Spec => []PolicyIsWhole
<1>1. Inv => PolicyIsWhole
  BY DEF Inv, PolicyInv, PolicyIsWhole, WholeFor
<1>2. QED
  BY <1>1, Always, PTL

\* Without failures a policy file and what was applied differ only while its
\* script runs or because the script refused it.
THEOREM Applies == Spec => []PolicyIsApplied
<1>1. TypeInv /\ Inv => PolicyIsApplied
  BY DEF TypeInv, Inv, AppliedInv, PolicyIsApplied
<1>2. QED
  BY <1>1, Always, PTL

----------------------------------------------------------------------------
(***************************************************************************)
(* The answers of a connection.  Its messages s lie end to end in the data *)
(* d stored for it, followed by the parts q under way: ends[k] is where    *)
(* the k-th ends, counted from the first part that was sent.  The first r  *)
(* messages have been answered.                                            *)
(***************************************************************************)
At(d, q, n) == IF n <= Len(d) THEN d[n] ELSE q[n - Len(d)]

Ends(s, ends) ==
  /\ ends \in [0 .. Len(s) -> Nat]
  /\ \A k \in 1 .. Len(s) : ends[k] = ends[k - 1] + Len(s[k].parts)
  /\ \A i, j \in 0 .. Len(s) : i <= j => ends[i] <= ends[j]

Link(s, r, d, q, ends) ==
  /\ Ends(s, ends)
  /\ r \in 0 .. Len(s)
  /\ ends[r] + Len(d) + Len(q) = ends[Len(s)]
  /\ \A k \in r + 1 .. Len(s) : \A j \in 1 .. Len(s[k].parts) :
       At(d, q, ends[k - 1] - ends[r] + j) = Piece(s[k], j)

Linked(s, r, d, q) == \E ends : Link(s, r, d, q, ends)

\* A part of a message that begins at b and ends at e lies within the x + y
\* parts that lead from a to f.
LEMMA Within ==
  ASSUME NEW a \in Nat, NEW b \in Nat, NEW e \in Nat, NEW f \in Nat,
         NEW x \in Nat, NEW y \in Nat, NEW p \in Nat, NEW j \in 1 .. p,
         a <= b, e = b + p, e <= f, a + x + y = f
  PROVE  b - a + j \in 1 .. x + y
OBVIOUS

\* ... and one that begins after the first x of them is not among these.
LEMMA Beyond ==
  ASSUME NEW a \in Nat, NEW b \in Nat, NEW x \in Nat, NEW j \in Nat,
         a + x <= b, j > 0
  PROVE  /\ b - a + j > x /\ (b - a + j) - x = b - (a + x) + j
         /\ b - (a + x) + j > 0
         /\ b - a + j \in Nat /\ b - (a + x) + j \in Nat
OBVIOUS

LEMMA LinkSend ==
  ASSUME NEW s \in Seq(Message), NEW r, NEW d \in Contents, NEW q \in Contents,
         NEW m \in Message, Linked(s, r, d, q)
  PROVE  Linked(Append(s, m), r, d, q \o Pieces(m))
<1>1. PICK ends : Link(s, r, d, q, ends)
  BY DEF Linked
<1> DEFINE t == Append(s, m)
           p == q \o Pieces(m)
           l == Len(s)
           more == [k \in 0 .. l + 1 |->
                      IF k <= l THEN ends[k] ELSE ends[l] + Len(m.parts)]
<1>2. /\ t \in Seq(Message) /\ Len(t) = l + 1 /\ l \in Nat /\ t[l + 1] = m
      /\ \A k \in 1 .. l : t[k] = s[k]
  OBVIOUS
<1>3. /\ Len(d) \in Nat /\ Len(q) \in Nat /\ Len(m.parts) \in Nat
      /\ Len(p) = Len(q) + Len(m.parts)
      /\ \A n \in 1 .. Len(q) : p[n] = q[n]
      /\ \A n \in 1 .. Len(m.parts) : p[Len(q) + n] = Piece(m, n)
  <2>1. /\ Pieces(m) \in Seq(AnyPiece) /\ q \in Seq(AnyPiece)
        /\ Len(Pieces(m)) = Len(m.parts)
        /\ \A n \in 1 .. Len(m.parts) : Pieces(m)[n] = Piece(m, n)
    BY PiecesType, MessageType DEF Contents
  <2>2. /\ Len(p) = Len(q) + Len(Pieces(m))
        /\ \A n \in 1 .. Len(q) : p[n] = q[n]
        /\ \A n \in 1 .. Len(Pieces(m)) : p[Len(q) + n] = Pieces(m)[n]
    BY <2>1
  <2>3. QED
    BY <2>1, <2>2, MessageType DEF Contents
<1>4. /\ ends \in [0 .. l -> Nat] /\ r \in 0 .. l
      /\ \A k \in 0 .. l : more[k] = ends[k] /\ ends[k] <= ends[l]
      /\ more[l + 1] = ends[l] + Len(m.parts)
      /\ ends[r] + Len(d) + Len(q) = ends[l]
  BY <1>1, <1>2 DEF Link, Ends
<1> HIDE DEF more
<1>5. Ends(t, more)
  <2>1. more \in [0 .. l + 1 -> Nat]
    <3>1. ends[l] + Len(m.parts) \in Nat
      BY <1>2, <1>3, <1>4
    <3>2. \A k \in 0 .. l : ends[k] \in Nat
      BY <1>4
    <3>3. \A k \in 0 .. l + 1 : k <= l => k \in 0 .. l
      BY <1>2
    <3>4. QED
      BY <3>1, <3>2, <3>3 DEF more
  <2>2. ASSUME NEW k \in 1 .. l + 1
        PROVE  more[k] = more[k - 1] + Len(t[k].parts)
    <3>1. CASE k = l + 1
      BY <1>2, <1>4, <3>1
    <3>2. CASE k \in 1 .. l
      <4>1. k - 1 \in 0 .. l /\ k \in 0 .. l
        BY <1>2, <3>2
      <4>2. ends[k] = ends[k - 1] + Len(s[k].parts)
        BY <1>1, <3>2 DEF Link, Ends
      <4>3. QED
        BY <1>2, <1>4, <3>2, <4>1, <4>2
    <3>3. QED
      BY <1>2, <3>1, <3>2
  <2>3. ASSUME NEW i \in 0 .. l + 1, NEW j \in 0 .. l + 1, i <= j
        PROVE  more[i] <= more[j]
    <3>1. CASE j \in 0 .. l
      <4>1. i \in 0 .. l
        BY <1>2, <2>3, <3>1
      <4>2. ends[i] <= ends[j]
        BY <1>1, <2>3, <3>1, <4>1 DEF Link, Ends
      <4>3. QED
        BY <1>4, <3>1, <4>1, <4>2
    <3>2. CASE j = l + 1
      <4>1. CASE i \in 0 .. l
        <5>1. more[i] <= ends[l] /\ ends[l] \in Nat /\ more[i] \in Nat
          BY <1>2, <1>4, <4>1
        <5>2. QED
          BY <1>3, <1>4, <3>2, <5>1
      <4>2. CASE i = l + 1
        BY <1>2, <1>3, <1>4, <3>2, <4>2
      <4>3. QED
        BY <1>2, <4>1, <4>2
    <3>3. QED
      BY <1>2, <3>1, <3>2
  <2>4. QED
    BY <1>2, <2>1, <2>2, <2>3 DEF Ends
<1>6. more[r] + Len(d) + Len(p) = more[l + 1]
  <2>1. ends[r] \in Nat /\ ends[l] \in Nat
    BY <1>2, <1>4
  <2>2. QED
    BY <1>3, <1>4, <2>1
<1>7. ASSUME NEW k \in r + 1 .. l + 1, NEW j \in 1 .. Len(t[k].parts)
      PROVE  At(d, p, more[k - 1] - more[r] + j) = Piece(t[k], j)
  <2>1. /\ k - 1 \in 0 .. l /\ r \in 0 .. l
        /\ more[k - 1] = ends[k - 1] /\ more[r] = ends[r]
        /\ ends[k - 1] \in Nat /\ ends[r] \in Nat /\ ends[r] <= ends[k - 1]
    <3>1. k - 1 \in 0 .. l /\ r <= k - 1
      BY <1>2, <1>4
    <3>2. ends[r] <= ends[k - 1]
      BY <1>1, <1>4, <3>1 DEF Link, Ends
    <3>3. QED
      BY <1>4, <3>1, <3>2
  <2>2. CASE k = l + 1
    <3>1. more[k - 1] - more[r] + j = Len(d) + (Len(q) + j)
      BY <1>2, <1>3, <1>4, <2>1, <2>2
    <3>2. j \in 1 .. Len(m.parts)
      BY <1>2, <2>2
    <3>3. ~(Len(d) + (Len(q) + j) <= Len(d))
      BY <1>3, <3>2
    <3>4. At(d, p, Len(d) + (Len(q) + j)) = p[(Len(d) + (Len(q) + j)) - Len(d)]
      BY <3>3 DEF At
    <3>5. (Len(d) + (Len(q) + j)) - Len(d) = Len(q) + j
      BY <1>3, <3>2
    <3>6. At(d, p, Len(d) + (Len(q) + j)) = Piece(m, j)
      BY <1>3, <3>2, <3>4, <3>5
    <3>7. QED
      BY <1>2, <2>2, <3>1, <3>6
  <2>3. CASE k \in r + 1 .. l
    <3> DEFINE n == ends[k - 1] - ends[r] + j
    <3>1. t[k] = s[k] /\ k \in 1 .. l
      BY <1>2, <1>4, <2>3
    <3>2. At(d, q, n) = Piece(s[k], j)
      BY <1>1, <2>3, <3>1 DEF Link
    <3>3. ends[k] = ends[k - 1] + Len(s[k].parts) /\ ends[k] <= ends[l]
      BY <1>1, <1>4, <3>1, <1>2 DEF Link, Ends
    <3>4. n \in 1 .. Len(d) + Len(q)
      <4>1. Len(s[k].parts) \in Nat /\ j \in 1 .. Len(s[k].parts)
        BY <3>1, MessageType
      <4>2. ends[l] \in Nat /\ ends[k] \in Nat
        BY <1>2, <1>4, <3>1
      <4>3. Len(d) \in Nat /\ Len(q) \in Nat /\ ends[r] + Len(d) + Len(q) = ends[l]
        BY <1>3, <1>4
      <4>4. QED
        BY <2>1, <3>3, <4>1, <4>2, <4>3, Within
    <3>5. n > Len(d) => n - Len(d) \in 1 .. Len(q)
      BY <1>3, <3>4
    <3>6. At(d, p, n) = At(d, q, n)
      BY <1>3, <3>4, <3>5 DEF At
    <3>7. QED
      BY <2>1, <3>1, <3>2, <3>6
  <2>4. k = l + 1 \/ k \in r + 1 .. l
    <3>1. r \in Nat /\ l \in Nat
      BY <1>2, <1>4
    <3>2. QED
      BY <3>1
  <2>5. QED
    BY <2>2, <2>3, <2>4
<1>8. Link(t, r, d, p, more)
  BY <1>2, <1>4, <1>5, <1>6, <1>7 DEF Link
<1>9. QED
  BY <1>8 DEF Linked

\* The message that is being received lies at the front.
LEMMA LinkFront ==
  ASSUME NEW s \in Seq(Message), NEW r, NEW d \in Contents, NEW q \in Contents,
         NEW ends, Link(s, r, d, q, ends), r < Len(s)
  PROVE  /\ s[r + 1] \in Message /\ r + 1 \in 1 .. Len(s)
         /\ ends[r + 1] = ends[r] + Len(s[r + 1].parts)
         /\ \A j \in 1 .. Len(s[r + 1].parts) : At(d, q, j) = Piece(s[r + 1], j)
         /\ \A k \in r + 2 .. Len(s) : k - 1 \in 0 .. Len(s) /\ ends[r + 1] <= ends[k - 1]
         /\ ends \in [0 .. Len(s) -> Nat]
<1>1. /\ r \in Nat /\ Len(s) \in Nat /\ r + 1 \in 1 .. Len(s)
      /\ r + 1 \in r + 1 .. Len(s) /\ (r + 1) - 1 = r /\ r \in 0 .. Len(s)
  BY DEF Link
<1>2. ends \in [0 .. Len(s) -> Nat] /\ ends[r] \in Nat
  BY <1>1 DEF Link, Ends
<1>3. ends[r + 1] = ends[r] + Len(s[r + 1].parts)
  BY <1>1 DEF Link, Ends
<1>4. ASSUME NEW j \in 1 .. Len(s[r + 1].parts)
      PROVE  At(d, q, j) = Piece(s[r + 1], j)
  <2>1. s[r + 1] \in Message
    BY <1>1
  <2>2. j \in Nat
    BY <2>1, MessageType
  <2>3. ends[r] - ends[r] + j = j
    BY <1>2, <2>2
  <2>4. At(d, q, ends[(r + 1) - 1] - ends[r] + j) = Piece(s[r + 1], j)
    BY <1>1 DEF Link
  <2>5. QED
    BY <1>1, <2>3, <2>4
<1>5. ASSUME NEW k \in r + 2 .. Len(s)
      PROVE  k - 1 \in 0 .. Len(s) /\ ends[r + 1] <= ends[k - 1]
  <2>1. k - 1 \in 0 .. Len(s) /\ r + 1 \in 0 .. Len(s) /\ r + 1 <= k - 1
    BY <1>1
  <2>2. QED
    BY <2>1 DEF Link, Ends
<1>6. QED
  BY <1>1, <1>2, <1>3, <1>4, <1>5

NextPiece(s, r, d) == Piece(s[r + 1], Len(d) + 1)

LEMMA LinkReceive ==
  ASSUME NEW s \in Seq(Message), NEW r, NEW d \in Contents, NEW q \in Contents,
         Linked(s, r, d, q), q # <<>>,
         d = <<>> \/ (r < Len(s) /\ Len(d) < Len(s[r + 1].parts))
  PROVE  /\ r < Len(s) /\ Len(d) + 1 \in 1 .. Len(s[r + 1].parts)
         /\ s[r + 1] \in Message
         /\ Head(q) = NextPiece(s, r, d)
         /\ Linked(s, r, Append(d, Head(q)), Tail(q))
<1>1. PICK ends : Link(s, r, d, q, ends)
  BY DEF Linked
<1> DEFINE x == Head(q)
           e == Append(d, x)
           p == Tail(q)
<1>2. /\ Len(d) \in Nat /\ Len(q) \in Nat /\ Len(q) > 0
      /\ e \in Contents /\ p \in Contents /\ x \in AnyPiece /\ x = q[1]
      /\ Len(e) = Len(d) + 1 /\ Len(p) = Len(q) - 1
      /\ \A n \in 1 .. Len(d) : e[n] = d[n]
      /\ e[Len(d) + 1] = x
      /\ \A n \in 1 .. Len(q) - 1 : p[n] = q[n + 1]
  BY DEF Contents
<1>3. r < Len(s)
  <2>1. r \in 0 .. Len(s) /\ Len(s) \in Nat /\ ends \in [0 .. Len(s) -> Nat]
        /\ ends[r] + Len(d) + Len(q) = ends[Len(s)]
    BY <1>1 DEF Link, Ends
  <2>2. r # Len(s)
    BY <1>2, <2>1
  <2>3. QED
    BY <2>1, <2>2
<1>4. /\ s[r + 1] \in Message /\ Len(d) + 1 \in 1 .. Len(s[r + 1].parts)
  <2>1. s[r + 1] \in Message
    BY <1>1, <1>3, LinkFront
  <2>2. QED
    BY <1>2, <2>1, MessageType DEF Contents
<1>5. x = Piece(s[r + 1], Len(d) + 1)
  <2>1. At(d, q, Len(d) + 1) = Piece(s[r + 1], Len(d) + 1)
    BY <1>1, <1>3, <1>4, LinkFront
  <2>2. At(d, q, Len(d) + 1) = q[1]
    BY <1>2 DEF At
  <2>3. QED
    BY <1>2, <2>1, <2>2
<1>6. \A n \in 1 .. Len(d) + Len(q) : At(e, p, n) = At(d, q, n)
  <2> SUFFICES ASSUME NEW n \in 1 .. Len(d) + Len(q)
               PROVE  At(e, p, n) = At(d, q, n)
    OBVIOUS
  <2>1. CASE n <= Len(d)
    BY <1>2, <2>1 DEF At
  <2>2. CASE n = Len(d) + 1
    BY <1>2, <2>2 DEF At
  <2>3. CASE n > Len(d) + 1
    <3>1. /\ n - Len(e) \in 1 .. Len(q) - 1
          /\ (n - Len(e)) + 1 = n - Len(d)
      BY <1>2, <2>3
    <3>2. p[n - Len(e)] = q[n - Len(d)]
      BY <1>2, <3>1
    <3>3. QED
      BY <1>2, <2>3, <3>2 DEF At
  <2>4. QED
    BY <1>2, <2>1, <2>2, <2>3
<1>7. Link(s, r, e, p, ends)
  <2>1. /\ Ends(s, ends) /\ r \in 0 .. Len(s) /\ Len(s) \in Nat
        /\ ends[r] + Len(d) + Len(q) = ends[Len(s)]
        /\ ends[r] \in Nat /\ ends[Len(s)] \in Nat
    BY <1>1 DEF Link, Ends
  <2>2. ends[r] + Len(e) + Len(p) = ends[Len(s)]
    <3>1. Len(e) + Len(p) = Len(d) + Len(q)
      BY <1>2
    <3>2. Len(e) \in Nat /\ Len(p) \in Nat /\ Len(d) \in Nat /\ Len(q) \in Nat
      BY <1>2
    <3>3. QED
      BY <2>1, <3>1, <3>2
  <2>3. ASSUME NEW k \in r + 1 .. Len(s), NEW j \in 1 .. Len(s[k].parts)
        PROVE  At(e, p, ends[k - 1] - ends[r] + j) = Piece(s[k], j)
    <3> DEFINE n == ends[k - 1] - ends[r] + j
    <3>1. k \in 1 .. Len(s) /\ k - 1 \in 0 .. Len(s) /\ k \in 0 .. Len(s) /\ r <= k - 1
      BY <2>1
    <3>2. /\ ends[k - 1] \in Nat /\ ends[k] \in Nat /\ ends[r] <= ends[k - 1]
          /\ ends[k] = ends[k - 1] + Len(s[k].parts)
          /\ ends[k] <= ends[Len(s)]
      <4>1. ends \in [0 .. Len(s) -> Nat]
        BY <2>1 DEF Ends
      <4>2. ends[k] = ends[k - 1] + Len(s[k].parts)
        BY <2>1, <3>1 DEF Ends
      <4>3. \A i, l \in 0 .. Len(s) : i <= l => ends[i] <= ends[l]
        BY <2>1 DEF Ends
      <4>4. Len(s) \in 0 .. Len(s) /\ k <= Len(s)
        BY <2>1, <3>1
      <4>5. QED
        BY <2>1, <3>1, <4>1, <4>2, <4>3, <4>4
    <3>3. Len(s[k].parts) \in Nat
      BY <3>1, MessageType
    <3>4. n \in 1 .. Len(d) + Len(q)
      <4>1. Len(d) \in Nat /\ Len(q) \in Nat
        BY <1>2
      <4>2. QED
        BY <2>1, <3>2, <3>3, <4>1, Within
    <3>5. At(d, q, n) = Piece(s[k], j)
      BY <1>1 DEF Link
    <3>6. QED
      BY <1>6, <3>4, <3>5
  <2>4. QED
    BY <2>1, <2>2, <2>3 DEF Link
<1>8. QED
  BY <1>3, <1>4, <1>5, <1>7 DEF Linked, NextPiece

LEMMA LinkReply ==
  ASSUME NEW s \in Seq(Message), NEW r, NEW d \in Contents, NEW q \in Contents,
         Linked(s, r, d, q), r < Len(s), Len(d) = Len(s[r + 1].parts)
  PROVE  /\ d = Pieces(s[r + 1])
         /\ s[r + 1] \in Message
         /\ Linked(s, r + 1, <<>>, q)
<1>1. PICK ends : Link(s, r, d, q, ends)
  BY DEF Linked
<1> DEFINE m == s[r + 1]
<1>2. /\ m \in Message /\ r + 1 \in 1 .. Len(s)
      /\ ends[r + 1] = ends[r] + Len(d)
      /\ \A j \in 1 .. Len(d) : At(d, q, j) = Piece(m, j)
      /\ Len(d) \in Nat /\ Len(q) \in Nat
      /\ ends \in [0 .. Len(s) -> Nat]
  BY <1>1, LinkFront DEF Contents
<1>3. d = Pieces(m)
  <2>1. \A j \in 1 .. Len(d) : d[j] = Piece(m, j)
    BY <1>2 DEF At
  <2>2. Len(Pieces(m)) = Len(d) /\ Pieces(m) \in Seq(AnyPiece) /\ d \in Seq(AnyPiece)
    BY <1>2, PiecesType DEF Contents
  <2>3. \A j \in 1 .. Len(d) : Pieces(m)[j] = d[j]
    BY <1>2, <2>1, PiecesType, MessageType
  <2>4. QED
    BY <2>2, <2>3, SeqEqual
<1>4. /\ Ends(s, ends) /\ r \in 0 .. Len(s) /\ Len(s) \in Nat
      /\ ends[r] + Len(d) + Len(q) = ends[Len(s)]
      /\ ends[r] \in Nat /\ ends[Len(s)] \in Nat /\ ends[r + 1] \in Nat
  <2>1. /\ Ends(s, ends) /\ r \in 0 .. Len(s) /\ Len(s) \in Nat
        /\ ends[r] + Len(d) + Len(q) = ends[Len(s)]
    BY <1>1 DEF Link
  <2>2. Len(s) \in 0 .. Len(s) /\ r + 1 \in 0 .. Len(s)
    BY <1>2, <2>1
  <2>3. QED
    BY <1>2, <2>1, <2>2
<1>5. ASSUME NEW k \in (r + 1) + 1 .. Len(s), NEW j \in 1 .. Len(s[k].parts)
      PROVE  At(<<>>, q, ends[k - 1] - ends[r + 1] + j) = Piece(s[k], j)
  <2>1. k \in r + 2 .. Len(s) /\ k \in r + 1 .. Len(s) /\ k \in 1 .. Len(s)
    BY <1>4
  <2>2. /\ k - 1 \in 0 .. Len(s) /\ ends[r + 1] <= ends[k - 1]
        /\ ends[k - 1] \in Nat
    BY <1>1, <1>2, <2>1, LinkFront
  <2>3. j \in Nat /\ j > 0
    BY <2>1, MessageType
  <2> DEFINE n == ends[k - 1] - ends[r] + j
             o == ends[k - 1] - ends[r + 1] + j
  <2>4. n > Len(d) /\ n - Len(d) = o /\ o > 0 /\ n \in Nat /\ o \in Nat
    <3>1. ends[r + 1] = ends[r] + Len(d) /\ Len(d) \in Nat
      BY <1>2
    <3>2. ends[r] \in Nat /\ ends[r] + Len(d) <= ends[k - 1]
      BY <1>4, <2>2, <3>1
    <3>3. /\ n > Len(d) /\ n - Len(d) = ends[k - 1] - (ends[r] + Len(d)) + j
          /\ ends[k - 1] - (ends[r] + Len(d)) + j > 0
          /\ n \in Nat /\ ends[k - 1] - (ends[r] + Len(d)) + j \in Nat
      BY <2>2, <2>3, <3>1, <3>2, Beyond
    <3>4. QED
      BY <3>1, <3>3
  <2>5. At(d, q, n) = Piece(s[k], j)
    BY <1>1, <2>1 DEF Link
  <2>6. At(d, q, n) = q[o] /\ At(<<>>, q, o) = q[o]
    BY <1>2, <2>4 DEF At
  <2>7. QED
    BY <2>5, <2>6
<1>6. Link(s, r + 1, <<>>, q, ends)
  <2>1. ends[r + 1] + Len(<<>>) + Len(q) = ends[Len(s)] /\ r + 1 \in 0 .. Len(s)
    BY <1>2, <1>4
  <2>2. QED
    BY <1>4, <1>5, <2>1 DEF Link
<1>7. QED
  BY <1>2, <1>3, <1>6 DEF Linked

----------------------------------------------------------------------------
PlainMessage(m) ==
  \A k \in DOMAIN m.parts :
    m.parts[k] # "empty" /\ (m.parts[k] = "brace" <=> k = Len(m.parts))

LEMMA PlainWhole ==
  ASSUME NEW m \in Message, PlainMessage(m)
  PROVE  Whole(m) = Pieces(m)
<1> DEFINE l == Len(m.parts)
<1>1. l \in Nat /\ DOMAIN m.parts = 1 .. l
  BY MessageType
<1>2. Stored(m) = 1 .. l
  BY <1>1 DEF Stored, PlainMessage
<1>3. Cardinality(1 .. l) = l
  BY <1>1, FS_Interval
<1>4. ASSUME NEW n \in 1 .. l PROVE Nth(m, n) = n
  <2>1. \A i \in 1 .. l : Cardinality({j \in 1 .. l : j <= i}) = i
    <3> SUFFICES ASSUME NEW i \in 1 .. l
                 PROVE  Cardinality({j \in 1 .. l : j <= i}) = i
      OBVIOUS
    <3>1. {j \in 1 .. l : j <= i} = 1 .. i
      BY <1>1
    <3>2. Cardinality(1 .. i) = i
      BY <1>1, FS_Interval
    <3>3. QED
      BY <3>1, <3>2
  <2>2. Nth(m, n) = CHOOSE i \in 1 .. l : Cardinality({j \in 1 .. l : j <= i}) = n
    BY <1>2 DEF Nth
  <2>3. QED
    BY <2>1, <2>2
<1>5. QED
  BY <1>2, <1>3, <1>4 DEF Whole, Pieces

\* What a connection has been answered, and where its next message is.
InOrder(c) ==
  LET r == Len(replies[c])
      m == sent[c][r + 1]
  IN /\ Linked(sent[c], r, json_in[c], inbox[c])
     /\ r <= Len(sent[c])
     /\ IF pc # "idle" /\ wsi = c
          THEN r < Len(sent[c]) /\ Len(json_in[c]) = Len(m.parts)
          ELSE \/ json_in[c] = <<>>
               \/ r < Len(sent[c]) /\ Len(json_in[c]) < Len(m.parts)
     /\ \A i \in 1 .. r : replies[c][i].contents = Whole(sent[c][i])

OrderInv ==
  /\ \A c \in Conn : c \notin open => inbox[c] = <<>>
  /\ faults = 0 => \A c \in open : Plain(c) => InOrder(c)

LEMMA PlainMessages ==
  ASSUME NEW c \in Conn, Plain(c), NEW i \in DOMAIN sent[c]
  PROVE  PlainMessage(sent[c][i])
BY DEF Plain, PlainMessage

\* A step that leaves a connection alone leaves it in order.
LEMMA SameOrder ==
  ASSUME NEW c \in Conn, Plain(c) => InOrder(c),
         sent'[c] = sent[c], replies'[c] = replies[c],
         json_in'[c] = json_in[c], inbox'[c] = inbox[c],
         (pc' # "idle" /\ wsi' = c) <=> (pc # "idle" /\ wsi = c)
  PROVE  Plain(c)' => InOrder(c)'
BY DEF Plain, InOrder

LEMMA OutsideOrder ==
  ASSUME TypeInv, OrderInv,
         \/ \E c \in Conn : Established(c) \/ Closed(c)
         \/ \E c \in Conn, m \in Message : ClientSend(c, m)
         \/ Apache \/ Crash
  PROVE  OrderInv'
<1> USE DEF thread, wire
<1>1. ASSUME NEW c \in Conn, Established(c) PROVE OrderInv'
  <2>1. /\ pc = "idle" /\ c \notin open /\ open' = open \union {c}
        /\ json_in'[c] = <<>> /\ replies'[c] = <<>> /\ sent'[c] = <<>>
        /\ \A k \in Conn : k # c => /\ json_in'[k] = json_in[k]
                                    /\ replies'[k] = replies[k]
                                    /\ sent'[k] = sent[k]
        /\ UNCHANGED <<inbox, pc, wsi, faults>>
    BY <1>1 DEF Established, TypeInv
  <2>2. inbox'[c] = <<>>
    BY <2>1 DEF OrderInv
  <2>3. Linked(<<>>, 0, <<>>, <<>>)
    <3> DEFINE none == [k \in 0 .. 0 |-> 0]
    <3>1. Link(<<>>, 0, <<>>, <<>>, none)
      BY DEF Link, Ends
    <3>2. QED
      BY <3>1 DEF Linked
  <2>4. InOrder(c)'
    BY <2>1, <2>2, <2>3 DEF InOrder
  <2>5. ASSUME NEW k \in open, faults = 0 PROVE Plain(k)' => InOrder(k)'
    <3>1. k \in Conn /\ k # c
      BY <2>1 DEF TypeInv
    <3>2. QED
      BY <2>1, <2>5, <3>1, SameOrder DEF OrderInv
  <2>6. QED
    BY <2>1, <2>4, <2>5 DEF OrderInv
<1>2. ASSUME NEW c \in Conn, Closed(c) PROVE OrderInv'
  <2>1. /\ open' = open \ {c} /\ inbox'[c] = <<>>
        /\ \A k \in Conn : k # c => inbox'[k] = inbox[k]
        /\ UNCHANGED <<json_in, replies, sent, pc, wsi, faults>>
    BY <1>2 DEF Closed, TypeInv
  <2>2. ASSUME NEW k \in open', faults = 0 PROVE Plain(k)' => InOrder(k)'
    <3>1. k \in Conn /\ k \in open /\ k # c
      BY <2>1 DEF TypeInv
    <3>2. QED
      BY <2>1, <2>2, <3>1, SameOrder DEF OrderInv
  <2>3. QED
    BY <2>1, <2>2 DEF OrderInv
<1>3. ASSUME NEW c \in Conn, NEW m \in Message, ClientSend(c, m) PROVE OrderInv'
  <2> DEFINE r == Len(replies[c])
             t == Append(sent[c], m)
  <2>1. /\ c \in open /\ sent'[c] = t
        /\ inbox'[c] = inbox[c] \o Pieces(m)
        /\ \A k \in Conn : k # c => inbox'[k] = inbox[k] /\ sent'[k] = sent[k]
        /\ UNCHANGED <<open, json_in, replies, pc, wsi, faults>>
    BY <1>3 DEF ClientSend, TypeInv
  <2>2. /\ sent[c] \in Seq(Message) /\ Len(sent[c]) \in Nat
        /\ Len(t) = Len(sent[c]) + 1
        /\ \A i \in 1 .. Len(sent[c]) : t[i] = sent[c][i]
        /\ DOMAIN t = 1 .. Len(sent[c]) + 1
        /\ DOMAIN sent[c] = 1 .. Len(sent[c])
        /\ json_in[c] \in Contents /\ inbox[c] \in Contents
        /\ r \in Nat
    BY DEF TypeInv, Answers
  <2>3. ASSUME faults = 0, Plain(c)' PROVE InOrder(c)'
    <3>1. Plain(c)
      <4>1. \A i \in DOMAIN sent[c] : i \in DOMAIN t /\ t[i] = sent[c][i]
        BY <2>2
      <4>2. QED
        BY <2>1, <2>3, <4>1 DEF Plain
    <3>2. InOrder(c)
      BY <2>1, <2>3, <3>1 DEF OrderInv
    <3>3. Linked(t, r, json_in[c], inbox[c] \o Pieces(m))
      BY <2>2, <3>2, LinkSend DEF InOrder
    <3>4. /\ r < Len(sent[c]) => t[r + 1] = sent[c][r + 1] /\ r < Len(t)
          /\ r <= Len(t)
          /\ \A i \in 1 .. r : t[i] = sent[c][i]
      BY <2>2, <3>2 DEF InOrder
    <3>5. QED
      BY <2>1, <3>2, <3>3, <3>4 DEF InOrder
  <2>4. ASSUME NEW k \in open, k # c, faults = 0 PROVE Plain(k)' => InOrder(k)'
    <3>1. k \in Conn
      BY DEF TypeInv
    <3>2. QED
      BY <2>1, <2>4, <3>1, SameOrder DEF OrderInv
  <2>5. QED
    BY <2>1, <2>3, <2>4 DEF OrderInv
<1>4. CASE Apache
  <2>1. UNCHANGED <<open, inbox, json_in, replies, sent, pc, wsi, faults>>
    BY <1>4 DEF Apache
  <2>2. ASSUME NEW k \in open, faults = 0 PROVE Plain(k)' => InOrder(k)'
    <3>1. k \in Conn
      BY DEF TypeInv
    <3>2. QED
      BY <2>1, <2>2, <3>1, SameOrder DEF OrderInv
  <2>3. QED
    BY <2>1, <2>2 DEF OrderInv
<1>5. CASE Crash
  BY <1>5 DEF Crash, OrderInv, TypeInv
<1>6. QED
  BY <1>1, <1>2, <1>3, <1>4, <1>5

LEMMA ReceiveOrder ==
  ASSUME TypeInv, OrderInv, NEW c \in Conn, Receive(c)
  PROVE  OrderInv'
<1> DEFINE x == Head(inbox[c])
           r == Len(replies[c])
           d == Append(json_in[c], x)
           m == sent[c][r + 1]
<1>1. /\ pc = "idle" /\ c \in open /\ inbox[c] # <<>>
      /\ inbox'[c] = Tail(inbox[c])
      /\ \A k \in Conn : k # c => inbox'[k] = inbox[k]
      /\ UNCHANGED <<open, replies, sent, faults>>
  BY DEF Receive, TypeInv
<1>2. /\ x.part # "empty" => json_in'[c] = d
      /\ \A k \in Conn : k # c => json_in'[k] = json_in[k]
      /\ x.part # "empty" /\ x.part # "brace" => pc' = pc
      /\ x.part # "empty" /\ x.part = "brace" => pc' = "write"
      /\ pc' = "idle" \/ wsi' = c
  BY <1>1 DEF Receive, thread, TypeInv
<1>3. ASSUME faults = 0, Plain(c) PROVE InOrder(c)'
  <2>1. InOrder(c)
    BY <1>1, <1>3 DEF OrderInv
  <2>2. /\ json_in[c] \in Contents /\ inbox[c] \in Contents
        /\ sent[c] \in Seq(Message) /\ Len(d) = Len(json_in[c]) + 1
        /\ DOMAIN sent[c] = 1 .. Len(sent[c]) /\ Len(sent[c]) \in Nat
        /\ r \in Nat /\ Len(json_in[c]) \in Nat
    BY <1>1 DEF TypeInv, Contents, Answers
  <2>3. json_in[c] = <<>> \/ (r < Len(sent[c]) /\ Len(json_in[c]) < Len(m.parts))
    BY <1>1, <2>1 DEF InOrder
  <2>4. /\ r < Len(sent[c]) /\ Len(json_in[c]) + 1 \in 1 .. Len(m.parts)
        /\ m \in Message /\ x = Piece(m, Len(json_in[c]) + 1)
        /\ Linked(sent[c], r, d, Tail(inbox[c]))
    <3>1. Linked(sent[c], r, json_in[c], inbox[c])
      BY <2>1 DEF InOrder
    <3>2. QED
      <4> DEFINE n == Len(replies[c])
      <4>1. /\ json_in[c] \in Contents /\ inbox[c] \in Contents
            /\ sent[c] \in Seq(Message) /\ inbox[c] # <<>> /\ n \in Nat
        BY <1>1, <2>2
      <4>2. Linked(sent[c], n, json_in[c], inbox[c])
        BY <3>1
      <4>3. \/ json_in[c] = <<>>
            \/ n < Len(sent[c]) /\ Len(json_in[c]) < Len(sent[c][n + 1].parts)
        BY <2>3
      <4> HIDE DEF n
      <4>4. n < Len(sent[c]) /\ sent[c][n + 1] \in Message
        BY <4>1, <4>2, <4>3, LinkReceive
      <4>5. Len(json_in[c]) + 1 \in 1 .. Len(sent[c][n + 1].parts)
        BY <4>1, <4>2, <4>3, LinkReceive
      <4>6. Head(inbox[c]) = NextPiece(sent[c], n, json_in[c])
        BY <4>1, <4>2, <4>3, LinkReceive
      <4>7. Linked(sent[c], n, Append(json_in[c], Head(inbox[c])), Tail(inbox[c]))
        BY <4>1, <4>2, <4>3, LinkReceive
      <4>8. QED
        BY <4>4, <4>5, <4>6, <4>7 DEF n, NextPiece
  <2>5. PlainMessage(m)
    BY <1>3, <2>2, <2>4, PlainMessages
  <2>6. /\ x.part # "empty"
        /\ x.part = "brace" <=> Len(d) = Len(m.parts)
    <3>1. x.part = m.parts[Len(json_in[c]) + 1]
      BY <2>4 DEF Piece
    <3>2. Len(json_in[c]) + 1 \in DOMAIN m.parts
      BY <2>4, MessageType
    <3>3. QED
      BY <2>2, <2>5, <3>1, <3>2 DEF PlainMessage
  <2>7. Len(d) <= Len(m.parts) /\ Len(m.parts) \in Nat
    BY <2>2, <2>4, MessageType
  <2>8. /\ x.part = "brace" => pc' # "idle" /\ wsi' = c
        /\ x.part # "brace" => pc' = "idle"
    BY <1>1, <1>2, <2>6
  <2>9. QED
    <3>1. /\ json_in'[c] = d /\ inbox'[c] = Tail(inbox[c])
          /\ sent' = sent /\ replies' = replies
      BY <1>1, <1>2, <2>6
    <3>2. IF pc' # "idle" /\ wsi' = c
            THEN r < Len(sent[c]) /\ Len(d) = Len(m.parts)
            ELSE r < Len(sent[c]) /\ Len(d) < Len(m.parts)
      BY <2>2, <2>4, <2>6, <2>7, <2>8
    <3>3. r <= Len(sent[c]) /\ \A i \in 1 .. r : replies[c][i].contents = Whole(sent[c][i])
      BY <2>1 DEF InOrder
    <3>4. QED
      BY <2>4, <3>1, <3>2, <3>3 DEF InOrder
<1>4. ASSUME NEW k \in open, k # c, faults = 0 PROVE Plain(k)' => InOrder(k)'
  <2>1. k \in Conn
    BY DEF TypeInv
  <2>2. QED
    BY <1>1, <1>2, <1>4, <2>1, SameOrder DEF OrderInv
<1>5. Plain(c)' <=> Plain(c)
  BY <1>1 DEF Plain
<1>6. QED
  BY <1>1, <1>3, <1>4, <1>5 DEF OrderInv

LEMMA StagesOrder ==
  ASSUME TypeInv, OrderInv,
         WriteTmp \/ Parse \/ CheckApache \/ Move \/ RunScript \/ SendReply
  PROVE  OrderInv'
<1>1. CASE ~SendReply
  <2>1. /\ pc # "idle" /\ pc' # "idle"
        /\ UNCHANGED <<open, inbox, json_in, replies, wsi, sent>>
        /\ faults' \in {faults, faults + 1}
    BY <1>1 DEF WriteTmp, Parse, CheckApache, Move, RunScript, Reply, wire
  <2>2. faults' = 0 => faults = 0
    BY <2>1 DEF TypeInv
  <2>3. ASSUME NEW k \in open, faults = 0 PROVE Plain(k)' => InOrder(k)'
    <3>1. k \in Conn
      BY DEF TypeInv
    <3>2. QED
      BY <2>1, <2>3, <3>1, SameOrder DEF OrderInv
  <2>4. QED
    BY <2>1, <2>2, <2>3 DEF OrderInv
<1>2. CASE SendReply
  <2>0. PICK c \in Conn : wsi = c
    BY <1>2 DEF SendReply, TypeInv
  <2> DEFINE r == Len(replies[c])
             d == json_in[c]
             m == sent[c][r + 1]
             a == [status |-> status, contents |-> d]
  <2>1. /\ d \in Contents /\ replies[c] \in Answers
        /\ sent[c] \in Seq(Message) /\ inbox[c] \in Contents
        /\ pc = "reply"
    BY <1>2 DEF SendReply, TypeInv
  <2>2. /\ json_in'[c] = <<>>
        /\ \A k \in Conn : k # c => json_in'[k] = json_in[k]
        /\ pc' = "idle"
        /\ UNCHANGED <<open, inbox, sent>>
        /\ \/ replies' = [replies EXCEPT ![c] = Append(@, a)] /\ faults' = faults
           \/ faults' = faults + 1
    BY <1>2, <2>0, <2>1 DEF SendReply, Done, wire, TypeInv
  <2>3. SUFFICES ASSUME faults' = 0
                 PROVE  \A k \in open : Plain(k)' => InOrder(k)'
    BY <2>2 DEF OrderInv
  <2>4. /\ faults = 0
        /\ replies'[c] = Append(replies[c], a)
        /\ \A k \in Conn : k # c => replies'[k] = replies[k]
    BY <2>1, <2>2, <2>3 DEF TypeInv
  <2>5. ASSUME c \in open, Plain(c) PROVE InOrder(c)'
    <3>1. InOrder(c)
      BY <2>4, <2>5 DEF OrderInv
    <3>2. r < Len(sent[c]) /\ Len(d) = Len(m.parts)
      BY <2>0, <2>1, <3>1 DEF InOrder
    <3>3. d = Pieces(m) /\ m \in Message /\ Linked(sent[c], r + 1, <<>>, inbox[c])
      BY <2>1, <3>1, <3>2, LinkReply DEF InOrder
    <3>4. r \in Nat /\ Len(sent[c]) \in Nat /\ r + 1 \in DOMAIN sent[c]
      BY <2>1, <3>2 DEF Answers
    <3>5. d = Whole(m)
      BY <2>1, <2>5, <3>3, <3>4, PlainMessages, PlainWhole
    <3>6. /\ Len(replies'[c]) = r + 1
          /\ \A i \in 1 .. r : replies'[c][i] = replies[c][i]
          /\ replies'[c][r + 1] = a
      <4>1. a \in Answer
        BY <2>1 DEF Answer, TypeInv
      <4>2. QED
        BY <2>1, <2>4, <4>1 DEF Answers
    <3>7. \A i \in 1 .. r + 1 : replies'[c][i].contents = Whole(sent[c][i])
      <4> SUFFICES ASSUME NEW i \in 1 .. r + 1
                   PROVE  replies'[c][i].contents = Whole(sent[c][i])
        OBVIOUS
      <4>1. CASE i = r + 1
        BY <3>5, <3>6, <4>1
      <4>2. CASE i \in 1 .. r
        BY <3>1, <3>6, <4>2 DEF InOrder
      <4>3. QED
        BY <3>4, <4>1, <4>2
    <3>8. QED
      <4>1. /\ r + 1 <= Len(sent[c]) /\ pc' = "idle" /\ json_in'[c] = <<>>
            /\ sent' = sent /\ inbox' = inbox
        BY <2>2, <3>2, <3>4
      <4>2. QED
        BY <3>3, <3>6, <3>7, <4>1 DEF InOrder
  <2>6. ASSUME NEW k \in open, k # c PROVE Plain(k)' => InOrder(k)'
    <3>1. k \in Conn
      BY DEF TypeInv
    <3>2. QED
      BY <2>0, <2>2, <2>4, <2>6, <3>1, SameOrder DEF OrderInv
  <2>7. Plain(c)' <=> Plain(c)
    BY <2>2 DEF Plain
  <2>8. QED
    BY <2>5, <2>6, <2>7
<1>3. QED
  BY <1>1, <1>2

\* Without failures, the answers on a connection whose messages are each one
\* frame sequence ended by its only brace are those to its messages, in the
\* order they were sent, whatever the other connections send in between.
THEOREM InOrderAnswers == Spec => []AnswersMatch
<1>1. Init => OrderInv
  BY DEF Init, OrderInv
<1>2. TypeInv /\ OrderInv /\ [Next]_vars => OrderInv'
  <2> SUFFICES ASSUME TypeInv, OrderInv, [Next]_vars PROVE OrderInv'
    OBVIOUS
  <2>1. CASE UNCHANGED vars
    <3>1. UNCHANGED <<open, inbox, json_in, replies, sent, pc, wsi, faults>>
      BY <2>1 DEF vars, wire, thread
    <3>2. ASSUME NEW k \in open, faults = 0 PROVE Plain(k)' => InOrder(k)'
      <4>1. k \in Conn
        BY DEF TypeInv
      <4>2. QED
        BY <3>1, <3>2, <4>1, SameOrder DEF OrderInv
    <3>3. QED
      BY <3>1, <3>2 DEF OrderInv
  <2>2. CASE Next
    BY <2>2, OutsideOrder, ReceiveOrder, StagesOrder DEF Next, Service
  <2>3. QED
    BY <2>1, <2>2
<1>3. TypeInv /\ OrderInv => AnswersMatch
  <2> SUFFICES ASSUME TypeInv, OrderInv, faults = 0, NEW c \in open, Plain(c),
                      NEW i \in DOMAIN replies[c]
               PROVE  /\ i \in DOMAIN sent[c]
                      /\ replies[c][i].contents = Whole(sent[c][i])
    BY DEF AnswersMatch
  <2>1. /\ c \in Conn /\ replies[c] \in Answers /\ sent[c] \in Seq(Message)
        /\ InOrder(c)
    BY DEF TypeInv, OrderInv
  <2>2. /\ DOMAIN replies[c] = 1 .. Len(replies[c]) /\ Len(replies[c]) \in Nat
        /\ DOMAIN sent[c] = 1 .. Len(sent[c]) /\ Len(sent[c]) \in Nat
    BY <2>1 DEF Answers
  <2>3. QED
    BY <2>1, <2>2 DEF InOrder
<1>4. QED
  BY <1>1, <1>2, <1>3, Always, PTL DEF Spec
============================================================================
