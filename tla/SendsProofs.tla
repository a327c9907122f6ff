----------------------------- MODULE SendsProofs -----------------------------
(***************************************************************************)
(* What goes out by itself is sound, for any templates, mails and messages *)
(* and any answers of Meta and SMTP: SendsSound in every behaviour. And    *)
(* what staff are shown is true, for any orders and any rules: ShownSound. *)
(* The parts share no rows, so each has an invariant of its own.           *)
(***************************************************************************)
EXTENDS Sends, FiniteSetTheorems, SequenceTheorems, WellFoundedInduction, TLAPS

(***************************************************************************)
(* What is said over WhatsApp.                                             *)
(***************************************************************************)
TalkCounted ==
  /\ said \in Nat /\ taken \in Nat /\ talkRows \in Nat /\ unfit \in Nat
  /\ RowsAreTaken /\ AnyChoiceFits

(* A wamid is read off an answer of Meta's that took the message.          *)
LEMMA PostedTaken ==
  ASSUME NEW a \in MetaAnswers
  PROVE  Posted(a).taken = a.taken /\ (Posted(a).result = "wamid" => a.taken)
  BY DEF Posted, MetaAnswers

(* Every number of options and every length of label has its form.         *)
LEMMA SomeFormFits ==
  ASSUME NEW a \in MetaAnswers, NEW m \in Says, NEW kept \in BOOLEAN,
         NEW reachable \in BOOLEAN, NEW o, o = AdapterSend(reachable, m.n, m.long, m.body, a, kept)
  PROVE  /\ o.taken \in BOOLEAN /\ o.row \in BOOLEAN /\ (o.row => o.taken)
         /\ reachable /\ m.body /\ a.taken => o.taken
<1> DEFINE s == SentForm(m.n, m.long, m.body, a)
<1>0. m.n \in Nat /\ m.long \in BOOLEAN /\ m.body \in BOOLEAN BY SaysAssumption
<1>1. s = NotSent \/ s = Posted(a)
  BY DEF SentForm, SendText, SendInteractiveButtons, SendInteractiveList, Form
<1>2. m.body => s = Posted(a)
  <2> SUFFICES ASSUME m.body PROVE s = Posted(a) OBVIOUS
  <2>1. CASE m.n = 0
    <3>1. Form(m.n, m.long) = "text" BY <1>0, <2>1 DEF Form
    <3> QED BY <3>1 DEF SentForm, SendText
  <2>2. CASE m.n # 0 /\ m.n <= 3 /\ ~m.long
    <3>1. Form(m.n, m.long) = "buttons" BY <1>0, <2>2 DEF Form
    <3>2. m.n \in 1 .. 3 BY <1>0, <2>2
    <3> QED BY <3>1, <3>2 DEF SentForm, SendInteractiveButtons
  <2>3. CASE m.n # 0 /\ ~(m.n <= 3 /\ ~m.long) /\ m.n <= 10
    <3>1. Form(m.n, m.long) = "list" BY <1>0, <2>3 DEF Form
    <3>2. m.n \in 1 .. 10 BY <1>0, <2>3
    <3> QED BY <3>1, <3>2 DEF SentForm, SendInteractiveList
  <2>4. CASE m.n # 0 /\ ~(m.n <= 3 /\ ~m.long) /\ m.n > 10
    <3>1. Form(m.n, m.long) = "enumerated" BY <1>0, <2>4 DEF Form
    <3>2. Form(m.n, m.long) \notin {"text", "buttons", "list"} BY <3>1
    <3>3. s = SendText(TRUE, TRUE, a) BY <3>2 DEF SentForm
    <3> QED BY <3>3 DEF SendText
  <2> HIDE DEF s
  <2> QED BY <2>1, <2>2, <2>3, <2>4, <1>0
<1>3. a.taken \in BOOLEAN BY DEF MetaAnswers
<1>4. NotSent.taken = FALSE /\ NotSent.result # "wamid" BY DEF NotSent
<1>5. o = IF ~reachable THEN [taken |-> FALSE, row |-> FALSE] ELSE [taken |-> s.taken, row |-> s.result = "wamid" /\ kept]
  BY DEF AdapterSend
<1> HIDE DEF s
<1>6. s.taken \in BOOLEAN /\ (s.result = "wamid" => s.taken) /\ (m.body => s.taken = a.taken)
  BY <1>1, <1>2, <1>3, <1>4, PostedTaken
<1>7. CASE ~reachable
  <2>1. o = [taken |-> FALSE, row |-> FALSE] BY <1>5, <1>7
  <2> QED BY <2>1, <1>7
<1>8. CASE reachable
  <2>1. o = [taken |-> s.taken, row |-> s.result = "wamid" /\ kept] BY <1>5, <1>8
  <2>2. o.taken = s.taken /\ o.row = (s.result = "wamid" /\ kept) BY <2>1
  <2> QED BY ONLY <2>2, <1>6, a.taken \in BOOLEAN, <1>0, kept \in BOOLEAN, <1>3
<1> QED BY <1>7, <1>8

LEMMA AttachmentTaken ==
  ASSUME NEW f, NEW a \in MetaAnswers, NEW o, o = SendAttachment(f.mime, f.mb, f.stored, f.upload, a)
  PROVE  o.taken \in BOOLEAN /\ (o.result = "wamid" => o.taken)
<1>1. o = NotSent \/ o = Posted(a) BY DEF SendAttachment, SendMedia
<1>2. a.taken \in BOOLEAN BY DEF MetaAnswers
<1>3. NotSent.taken = FALSE /\ NotSent.result # "wamid" BY DEF NotSent
<1>4. CASE o = NotSent BY <1>3, <1>4
<1>5. CASE o = Posted(a) BY <1>2, <1>5, PostedTaken
<1> QED BY <1>1, <1>4, <1>5

LEMMA CountedKeeps ==
  ASSUME TalkCounted, NEW fine, NEW o, Counted(fine, o), o.taken \in BOOLEAN, o.row \in BOOLEAN, o.row => o.taken, fine => o.taken
  PROVE  TalkCounted'
  BY DEF TalkCounted, Counted, Count, RowsAreTaken, AnyChoiceFits

LEMMA TalkStep == ASSUME TalkCounted, [TalkNext]_talkVars PROVE TalkCounted'
<1>1. ASSUME NEW m \in Says, NEW a \in MetaAnswers, NEW reachable \in BOOLEAN, NEW kept \in BOOLEAN, BotSays(m, reachable, a, kept)
      PROVE  TalkCounted'
  <2> DEFINE o == AdapterSend(reachable, m.n, m.long, m.body, a, kept)
  <2>2. /\ o.taken \in BOOLEAN /\ o.row \in BOOLEAN /\ (o.row => o.taken)
        /\ reachable /\ m.body /\ a.taken => o.taken
    <3> HIDE DEF o
    <3>1. o = AdapterSend(reachable, m.n, m.long, m.body, a, kept) BY DEF o
    <3> QED BY <3>1, SomeFormFits
  <2>3. Counted(reachable /\ m.body /\ a.taken, o) BY <1>1 DEF BotSays
  <2> HIDE DEF o
  <2> QED BY <2>2, <2>3, CountedKeeps
<1>2. ASSUME NEW f \in Files, NEW a \in MetaAnswers, AgentAttaches(f, a) PROVE TalkCounted'
  <2> DEFINE o == SendAttachment(f.mime, f.mb, f.stored, f.upload, a)
             p == [taken |-> o.taken, row |-> o.result = "wamid"]
  <2>1. o.taken \in BOOLEAN /\ (o.result = "wamid" => o.taken) BY AttachmentTaken
  <2>2. Counted(FALSE, p) BY <1>2 DEF AgentAttaches
  <2> HIDE DEF o
  <2>3. p.taken \in BOOLEAN /\ p.row \in BOOLEAN /\ (p.row => p.taken) BY <2>1
  <2> HIDE DEF p
  <2> QED BY <2>2, <2>3, CountedKeeps
<1>3. CASE UNCHANGED talkVars BY <1>3 DEF talkVars, TalkCounted, RowsAreTaken, AnyChoiceFits
<1> QED BY <1>1, <1>2, <1>3 DEF TalkNext

LEMMA TalkHolds == TalkSpec => [](RowsAreTaken /\ AnyChoiceFits)
<1>1. TalkInit => TalkCounted BY DEF TalkInit, TalkCounted, RowsAreTaken, AnyChoiceFits
<1>2. TalkCounted => RowsAreTaken /\ AnyChoiceFits BY DEF TalkCounted
<1> QED BY <1>1, <1>2, TalkStep, PTL DEF TalkSpec

(***************************************************************************)
(* The references of a text: its names, each once, by first use.           *)
(***************************************************************************)
Words == STRING \cup {""}
Rank(text, i) == Cardinality({j \in Firsts(text) : j <= i})
Once(seq)     == \A i, j \in DOMAIN seq : seq[i] = seq[j] => i = j

(* A name of a list is found where it is.                                  *)
LEMMA AtIs ==
  ASSUME NEW S, NEW seq \in Seq(S), Once(seq), NEW k \in DOMAIN seq
  PROVE  At(seq, seq[k]) = k
<1> DEFINE I == {i \in 1 .. Len(seq) : seq[i] = seq[k]}
<1>1. DOMAIN seq = 1 .. Len(seq) /\ Len(seq) \in Nat BY LenProperties
<1>2. I = {k} BY <1>1 DEF Once
<1>3. Min({k}) = k
  <2>1. k \in Nat BY <1>1
  <2>2. \A x \in {k} : (\A y \in {k} : x <= y) => x = k OBVIOUS
  <2>3. \E x \in {k} : \A y \in {k} : x <= y BY <2>1
  <2> QED BY ONLY <2>2, <2>3 DEF Min
<1>4. At(seq, seq[k]) = IF I # {} THEN Min(I) ELSE 0 BY DEF At, SelectInSeq
<1> QED BY <1>2, <1>3, <1>4

LEMMA FirstsCounted ==
  ASSUME NEW text \in Seq(Words)
  PROVE  /\ DOMAIN text = 1 .. Len(text) /\ Len(text) \in Nat
         /\ Firsts(text) \subseteq 1 .. Len(text) /\ IsFiniteSet(Firsts(text)) /\ Cardinality(Firsts(text)) \in Nat
<1>1. DOMAIN text = 1 .. Len(text) /\ Len(text) \in Nat BY LenProperties
<1>2. Firsts(text) \subseteq 1 .. Len(text) BY <1>1 DEF Firsts
<1>3. IsFiniteSet(1 .. Len(text)) BY <1>1, FS_Interval
<1> QED BY <1>1, <1>2, <1>3, FS_Subset, FS_CardinalityType

(* Every name of a text has a first use.                                   *)
LEMMA FirstUse ==
  ASSUME NEW text \in Seq(Words), NEW i \in DOMAIN text, text[i] # ""
  PROVE  \E f \in Firsts(text) : text[f] = text[i]
<1> DEFINE U == {j \in 1 .. Len(text) : text[j] = text[i]}
           R == {ss \in Nat \X Nat : ss[1] < ss[2]}
<1>1. DOMAIN text = 1 .. Len(text) /\ Len(text) \in Nat BY LenProperties
<1>2. IsWellFoundedOn(R, Nat) BY NatLessThanWellFounded DEF OpToRel
<1>3. U \subseteq Nat /\ U # {}
  <2>1. i \in U BY <1>1
  <2>2. Len(text) \in Nat BY <1>1
  <2>3. 1 .. Len(text) \subseteq Nat BY ONLY <2>2
  <2> QED BY <2>1, <2>3
<1>4. PICK f \in U : \A v \in U : <<v, f>> \notin R BY <1>2, <1>3, WFMin
<1>5. \A v \in U : ~(v < f) BY <1>3, <1>4
<1>6. f \in DOMAIN text /\ text[f] = text[i] /\ text[f] # "" BY <1>1, <1>4
<1>7. \A j \in 1 .. f - 1 : text[j] # text[f]
  <2> SUFFICES ASSUME NEW j \in 1 .. f - 1, text[j] = text[f] PROVE FALSE OBVIOUS
  <2>1. f \in 1 .. Len(text) BY <1>4
  <2>2. j \in 1 .. Len(text) /\ j < f
    <3>1. Len(text) \in Nat BY <1>1
    <3> QED BY ONLY <3>1, <2>1, j \in 1 .. f - 1
  <2>3. j \in U BY <2>2, <1>6
  <2> QED BY <2>2, <2>3, <1>5
<1> HIDE DEF U
<1>8. f \in Firsts(text) BY <1>6, <1>7 DEF Firsts
<1> QED BY <1>6, <1>8

(* Ranks number the first uses from 1.                                     *)
LEMMA Ranks ==
  ASSUME NEW text \in Seq(Words), NEW n, n = Cardinality(Firsts(text))
  PROVE  /\ \A i \in Firsts(text) : Rank(text, i) \in 1 .. n
         /\ \A i, j \in Firsts(text) : Rank(text, i) = Rank(text, j) => i = j
         /\ \A k \in 1 .. n : \E i \in Firsts(text) : Rank(text, i) = k
<1> DEFINE F == Firsts(text)
           Upto(i) == {j \in F : j <= i}
<1>1. F \subseteq Nat /\ IsFiniteSet(F) /\ n \in Nat
  <2>1. 1 .. Len(text) \subseteq Nat BY FirstsCounted
  <2> QED BY <2>1, FirstsCounted
<1> HIDE DEF F
<1>2. \A i \in F : IsFiniteSet(Upto(i)) /\ Upto(i) \subseteq F /\ Cardinality(Upto(i)) \in Nat /\ Cardinality(Upto(i)) <= n
  <2> TAKE i \in F
  <2>1. Upto(i) \in SUBSET F OBVIOUS
  <2>2. n = Cardinality(F) BY DEF F
  <2> QED BY <1>1, <2>1, <2>2, FS_Subset, FS_CardinalityType
<1>3. \A i \in F : Cardinality(Upto(i)) # 0
  <2> TAKE i \in F
  <2>1. i \in Upto(i) BY <1>1
  <2> HIDE DEF Upto
  <2>2. Upto(i) # {} BY <2>1
  <2> QED BY <2>2, <1>2, FS_EmptySet
<1>4. \A i \in F : Rank(text, i) = Cardinality(Upto(i)) BY DEF Rank, F
<1>5. \A i \in F : Rank(text, i) \in 1 .. n
  <2> TAKE i \in F
  <2> DEFINE c == Cardinality(Upto(i))
  <2>1. c \in Nat /\ c <= n /\ c # 0 /\ Rank(text, i) = c BY <1>2, <1>3, <1>4
  <2> HIDE DEF c
  <2> QED BY <2>1, <1>1
<1>6. ASSUME NEW i \in F, NEW j \in F, i < j PROVE Rank(text, i) # Rank(text, j)
  <2>0. i \in Nat /\ j \in Nat /\ \A h \in F : h \in Nat BY <1>1
  <2>1. Upto(i) \subseteq Upto(j)
    <3> SUFFICES ASSUME NEW h \in F, h <= i PROVE h <= j OBVIOUS
    <3> QED BY <2>0, <1>6
  <2>2. j \in Upto(j) /\ j \notin Upto(i) BY <1>1, <1>6
  <2> HIDE DEF Upto
  <2>3. Upto(i) # Upto(j) /\ Upto(i) \in SUBSET Upto(j) BY <2>1, <2>2
  <2>4. Cardinality(Upto(i)) # Cardinality(Upto(j)) BY <2>3, <1>2, FS_Subset
  <2> QED BY <2>4, <1>4
<1>7. \A i, j \in F : Rank(text, i) = Rank(text, j) => i = j
  <2> TAKE i, j \in F
  <2>1. i \in Nat /\ j \in Nat BY <1>1
  <2>2. i < j \/ j < i \/ i = j BY <2>1
  <2> QED BY <2>2, <1>6
<1>8. \A k \in 1 .. n : \E i \in F : Rank(text, i) = k
  <2> DEFINE f == [i \in F |-> Rank(text, i)]
  <2>1. f \in Injection(F, 1 .. n) BY <1>5, <1>7 DEF Injection, IsInjective
  <2>2. IsFiniteSet(1 .. n) /\ Cardinality(1 .. n) = n BY <1>1, FS_Interval
  <2>3. Cardinality(F) = Cardinality(1 .. n) BY <2>2 DEF F
  <2>4. f \in Surjection(F, 1 .. n) BY <2>1, <2>2, <2>3, FS_Injection
  <2> QED BY <2>4 DEF Surjection
<1> QED BY <1>5, <1>7, <1>8 DEF F

(* The k-th reference is the name with rank k.                             *)
LEMMA RefsAre ==
  ASSUME NEW text \in Seq(Words), NEW R, R = References(text)
  PROVE  /\ R \in Seq(Words) /\ Len(R) = Cardinality(Firsts(text)) /\ DOMAIN R = 1 .. Len(R)
         /\ \A i \in Firsts(text) : Rank(text, i) \in DOMAIN R /\ R[Rank(text, i)] = text[i]
         /\ \A k \in DOMAIN R : \E i \in Firsts(text) : Rank(text, i) = k /\ R[k] = text[i]
<1> DEFINE F == Firsts(text)
           n == Cardinality(Firsts(text))
           G(k) == CHOOSE i \in F : Rank(text, i) = k
<1>1. n \in Nat BY FirstsCounted
<1>2. R = [k \in 1 .. n |-> text[G(k)]] BY DEF References, Rank
<1>3. \A k \in 1 .. n : \E i \in F : Rank(text, i) = k BY Ranks
<1>4. \A k \in 1 .. n : G(k) \in F /\ Rank(text, G(k)) = k BY <1>3
<1>5. \A i \in F : Rank(text, i) \in 1 .. n /\ G(Rank(text, i)) = i
  <2> TAKE i \in F
  <2>1. Rank(text, i) \in 1 .. n BY Ranks
  <2>2. G(Rank(text, i)) \in F /\ Rank(text, G(Rank(text, i))) = Rank(text, i) BY <2>1, <1>4
  <2> HIDE DEF G
  <2> QED BY <2>1, <2>2, Ranks
<1>6. \A i \in F : text[i] \in Words
  <2> TAKE i \in F
  <2>1. i \in DOMAIN text BY DEF Firsts
  <2> QED BY <2>1, LenProperties, ElementOfSeq
<1> HIDE DEF n, G, F
<1>7. R \in [1 .. n -> Words] /\ DOMAIN R = 1 .. n BY <1>2, <1>4, <1>6
<1>8. R \in Seq(Words) /\ Len(R) = n BY <1>1, <1>7, LenProperties DEF Seq
<1>9. \A i \in F : Rank(text, i) \in DOMAIN R /\ R[Rank(text, i)] = text[i] BY <1>2, <1>5, <1>7
<1>10. \A k \in DOMAIN R : \E i \in F : Rank(text, i) = k /\ R[k] = text[i]
  <2> TAKE k \in DOMAIN R
  <2>1. G(k) \in F /\ Rank(text, G(k)) = k /\ R[k] = text[G(k)] BY <1>2, <1>4, <1>7
  <2> QED BY <2>1
<1> QED BY <1>7, <1>8, <1>9, <1>10 DEF n, F

LEMMA RefsNamed ==
  ASSUME NEW text \in Seq(Words)
  PROVE  Once(References(text)) /\ ToSet(References(text)) = ToSet(text) \ {""}
<1> DEFINE R == References(text)
<1>1. /\ \A i \in Firsts(text) : Rank(text, i) \in DOMAIN R /\ R[Rank(text, i)] = text[i]
      /\ \A k \in DOMAIN R : \E i \in Firsts(text) : Rank(text, i) = k /\ R[k] = text[i]
  BY RefsAre
<1> HIDE DEF R
<1>2. Firsts(text) \subseteq DOMAIN text /\ \A i \in Firsts(text) : i \in Nat /\ text[i] # "" /\ \A j \in 1 .. i - 1 : text[j] # text[i]
  <2>1. 1 .. Len(text) \subseteq Nat OBVIOUS
  <2>2. Firsts(text) \subseteq 1 .. Len(text) /\ DOMAIN text = 1 .. Len(text) BY FirstsCounted
  <2>3. \A i \in Firsts(text) : text[i] # "" /\ \A j \in 1 .. i - 1 : text[j] # text[i] BY DEF Firsts
  <2> QED BY <2>1, <2>2, <2>3
<1>3. Once(R)
  <2> SUFFICES ASSUME NEW k \in DOMAIN R, NEW m \in DOMAIN R, R[k] = R[m] PROVE k = m BY DEF Once
  <2>1. PICK i \in Firsts(text) : Rank(text, i) = k /\ R[k] = text[i] BY <1>1
  <2>2. PICK j \in Firsts(text) : Rank(text, j) = m /\ R[m] = text[j] BY <1>1
  <2>3. i = j
    <3>1. i \in Nat /\ j \in Nat /\ i >= 1 /\ j >= 1 BY FirstsCounted
    <3>2. ~(i < j)
      <4> SUFFICES ASSUME i < j PROVE FALSE OBVIOUS
      <4>1. i \in 1 .. j - 1 BY <3>1
      <4> QED BY <4>1, <1>2, <2>1, <2>2
    <3>3. ~(j < i)
      <4> SUFFICES ASSUME j < i PROVE FALSE OBVIOUS
      <4>1. j \in 1 .. i - 1 BY <3>1
      <4> QED BY <4>1, <1>2, <2>1, <2>2
    <3> QED BY <3>1, <3>2, <3>3
  <2> QED BY <2>1, <2>2, <2>3
<1>4. \A x \in ToSet(R) : x \in ToSet(text) \ {""}
  <2> TAKE x \in ToSet(R)
  <2>1. PICK k \in DOMAIN R : x = R[k] BY DEF ToSet
  <2>2. PICK i \in Firsts(text) : R[k] = text[i] BY <1>1
  <2> QED BY <2>1, <2>2, <1>2 DEF ToSet
<1>5. \A x \in ToSet(text) \ {""} : x \in ToSet(R)
  <2> TAKE x \in ToSet(text) \ {""}
  <2>1. PICK i \in DOMAIN text : x = text[i] /\ text[i] # "" BY DEF ToSet
  <2>2. PICK f \in Firsts(text) : text[f] = text[i] BY <2>1, FirstUse
  <2>3. Rank(text, f) \in DOMAIN R /\ R[Rank(text, f)] = x BY <1>1, <2>1, <2>2
  <2> QED BY <2>3 DEF ToSet
<1> QED BY <1>3, <1>4, <1>5 DEF R

(* Text that follows adds references behind those there are.               *)
LEMMA RefsGrow ==
  ASSUME NEW text \in Seq(Words), NEW more \in Seq(Words), NEW k \in DOMAIN References(text)
  PROVE  k \in DOMAIN References(text \o more) /\ References(text \o more)[k] = References(text)[k]
<1> DEFINE all == text \o more
<1>1. all \in Seq(Words) /\ Len(all) = Len(text) + Len(more) /\ \A i \in 1 .. Len(text) : all[i] = text[i]
  <2>1. Len(text) \in Nat /\ Len(more) \in Nat BY LenProperties
  <2> QED BY <2>1, ConcatProperties
<1>2. /\ DOMAIN text = 1 .. Len(text) /\ Len(text) \in Nat /\ Len(more) \in Nat /\ DOMAIN all = 1 .. Len(all)
  BY <1>1, LenProperties
<1> HIDE DEF all
<1>3. \A i \in 1 .. Len(text) : i \in Firsts(all) <=> i \in Firsts(text)
  <2> TAKE i \in 1 .. Len(text)
  <2>1. i \in DOMAIN all /\ i \in DOMAIN text /\ all[i] = text[i] BY <1>1, <1>2
  <2>2. \A j \in 1 .. i - 1 : j \in 1 .. Len(text) /\ all[j] = text[j] BY <1>1, <1>2
  <2> QED BY <2>1, <2>2 DEF Firsts
<1>4. PICK i \in Firsts(text) : Rank(text, i) = k /\ References(text)[k] = text[i] BY RefsAre
<1>5. i \in 1 .. Len(text) /\ i \in Firsts(all) BY <1>3, <1>4, FirstsCounted
<1>6. {j \in Firsts(all) : j <= i} = {j \in Firsts(text) : j <= i}
  <2>1. Firsts(all) \subseteq 1 .. Len(all) /\ Firsts(text) \subseteq 1 .. Len(text) BY <1>1, FirstsCounted
  <2>2. \A j \in Firsts(all) : j <= i => j \in 1 .. Len(text) BY <2>1, <1>1, <1>2, <1>5
  <2> QED BY <2>1, <2>2, <1>3
<1>7. Rank(all, i) = k BY <1>4, <1>6 DEF Rank
<1>8. k \in DOMAIN References(all) /\ References(all)[k] = all[i] BY <1>1, <1>5, <1>7, RefsAre
<1> QED BY <1>1, <1>4, <1>5, <1>8 DEF all

(***************************************************************************)
(* Templates over WhatsApp. A row fits what Meta has under its name: the   *)
(* position of a variable at Meta is its place in the mapping.             *)
(***************************************************************************)
TemplateStatuses == {"PENDING", "APPROVED", "REJECTED", "PAUSED", "DISABLED"}
RowFormed(row) ==
  row = [status |-> row.status, body |-> row.body, mapping |-> row.mapping, count |-> row.count, category |-> row.category,
         bid |-> row.bid, image |-> row.image, buttons |-> row.buttons]
InPosition(m, row, i) ==
  \E j \in 1 .. row.count :
    /\ j = At(NamesOf(row), row.body[i]) /\ row.mapping[j].name = row.body[i] /\ At(Positions, m.body[i]) = j
Mapped(m, row) ==
  /\ row.count \in Nat
  /\ row.mapping = [j \in 1 .. row.count |->
       [name |-> row.mapping[j].name, path |-> row.mapping[j].path, fallback |-> row.mapping[j].fallback]]
  /\ \A j \in 1 .. row.count : row.mapping[j].name # "null"
  /\ DOMAIN m.body = DOMAIN row.body
  /\ \A i \in DOMAIN row.body : InPosition(m, row, i)
RowFits(m, row) ==
  /\ RowFormed(row) /\ row.status \in TemplateStatuses /\ m # NoTemplate
  /\ row.mapping = <<>> => row.count = CountVariables(row.body) /\ row.body = m.body
  /\ row.mapping # <<>> => Mapped(m, row)

(* What no write of a row changes.                                         *)
SameAuthor(row, next) ==
  /\ next.bid = row.bid /\ (next.mapping = <<>> <=> row.mapping = <<>>)
  /\ row.mapping # <<>> => next.body = row.body /\ NamesOf(next) = NamesOf(row)

LEMMA NoPlaces == DOMAIN <<>> = {} OBVIOUS

LEMMA CountedIsSeq ==
  ASSUME NEW n \in Nat, NEW s, DOMAIN s = 1 .. n, s = [j \in 1 .. n |-> s[j]]
  PROVE  Len(s) = n /\ (s = <<>> <=> n = 0)
<1> DEFINE S == {s[j] : j \in 1 .. n}
<1>1. \A j \in 1 .. n : s[j] \in S OBVIOUS
<1> HIDE DEF S
<1>2. s \in [1 .. n -> S] BY <1>1
<1>3. s \in Seq(S) BY <1>2 DEF Seq
<1>4. Len(s) = n
  <2>1. Len(s) \in Nat /\ DOMAIN s = 1 .. Len(s) BY <1>3, LenProperties
  <2>2. 1 .. n = 1 .. Len(s) BY <2>1
  <2>3. n > 0 => n \in 1 .. n OBVIOUS
  <2>4. Len(s) > 0 => Len(s) \in 1 .. Len(s) BY <2>1
  <2>5. ~(n > Len(s)) BY <2>1, <2>2, <2>3
  <2>6. ~(Len(s) > n) BY <2>1, <2>2, <2>4
  <2> QED BY <2>1, <2>5, <2>6
<1> QED BY <1>3, <1>4, EmptySeq

LEMMA MappedNames ==
  ASSUME NEW m, NEW row, Mapped(m, row)
  PROVE  /\ Len(row.mapping) = row.count /\ DOMAIN row.mapping = 1 .. row.count
         /\ DOMAIN NamesOf(row) = 1 .. row.count /\ \A j \in 1 .. row.count : NamesOf(row)[j] = row.mapping[j].name
<1>1. row.count \in Nat /\ DOMAIN row.mapping = 1 .. row.count /\ row.mapping = [j \in 1 .. row.count |-> row.mapping[j]]
  BY DEF Mapped
<1>2. Len(row.mapping) = row.count BY <1>1, CountedIsSeq
<1> QED BY <1>1, <1>2 DEF NamesOf

LEMMA FitsStill ==
  ASSUME NEW m, NEW row, RowFits(m, row), NEW n, n # NoTemplate, n.body = m.body
  PROVE  RowFits(n, row)
  BY DEF RowFits, Mapped, InPosition

LEMMA FitsIsRow ==
  ASSUME NEW m, NEW row, RowFits(m, row)
  PROVE  row # NoTemplate
<1>1. row.status # "none" BY DEF RowFits, TemplateStatuses
<1>2. NoTemplate.status = "none" BY DEF NoTemplate
<1> QED BY <1>1, <1>2

LEMMA StatusKnown == \A s : StatusOf(s) \in TemplateStatuses BY DEF StatusOf, TemplateStatuses

LEMMA SyncedFits ==
  ASSUME NEW m, NEW row, RowFits(m, row), NEW t, t.body = m.body, NEW next, next = Synced(row, t)
  PROVE  RowFits(m, next) /\ SameAuthor(row, next)
<1>1. RowFormed(row) /\ row.status \in TemplateStatuses /\ m # NoTemplate BY DEF RowFits
<1>2. CASE row.mapping = <<>>
  <2>1. next = [row EXCEPT !.status = StatusOf(t.status), !.category = t.category, !.body = t.body, !.count = CountVariables(t.body)]
    BY <1>2 DEF Synced
  <2>2. /\ next.status = StatusOf(t.status) /\ next.body = t.body /\ next.count = CountVariables(t.body)
        /\ next.mapping = row.mapping /\ next.bid = row.bid /\ RowFormed(next)
    BY <2>1, <1>1 DEF RowFormed
  <2> QED BY <2>2, <1>1, <1>2, StatusKnown DEF RowFits, SameAuthor
<1>3. CASE row.mapping # <<>>
  <2>1. next = [row EXCEPT !.status = StatusOf(t.status), !.category = t.category] BY <1>3 DEF Synced
  <2>2. /\ next.status = StatusOf(t.status) /\ next.body = row.body /\ next.count = row.count
        /\ next.mapping = row.mapping /\ next.bid = row.bid /\ RowFormed(next)
    BY <2>1, <1>1 DEF RowFormed
  <2>3. Mapped(m, row) BY <1>3 DEF RowFits
  <2>4. NamesOf(next) = NamesOf(row) BY <2>2 DEF NamesOf
  <2>5. Mapped(m, next) BY <2>2, <2>3, <2>4 DEF Mapped, InPosition
  <2> QED BY <2>2, <2>4, <2>5, <1>1, <1>3, StatusKnown DEF RowFits, SameAuthor
<1> QED BY <1>2, <1>3

LEMMA ImportedFits ==
  ASSUME NEW m, m # NoTemplate, NEW t, t.body = m.body, NEW next, next = Imported(t)
  PROVE  RowFits(m, next) /\ next.bid = FALSE
<1>1. /\ next.status = StatusOf(t.status) /\ next.body = t.body /\ next.count = CountVariables(t.body)
      /\ next.mapping = <<>> /\ next.bid = FALSE /\ RowFormed(next)
  BY DEF Imported, RowFormed
<1> QED BY <1>1, StatusKnown DEF RowFits

LEMMA BoundFits ==
  ASSUME NEW m, NEW row, RowFits(m, row), NEW b, b.name \in ToSet(NamesOf(row)), NEW next, next = Bound(row, b)
  PROVE  RowFits(m, next) /\ SameAuthor(row, next) /\ row.mapping # <<>>
<1>1. RowFormed(row) /\ row.status \in TemplateStatuses /\ m # NoTemplate BY DEF RowFits
<1>2. row.mapping # <<>>
  <2>1. \E i \in DOMAIN row.mapping : TRUE BY DEF NamesOf, ToSet
  <2>2. DOMAIN <<>> = {} OBVIOUS
  <2> QED BY <2>1, <2>2
<1>3. Mapped(m, row) BY <1>2 DEF RowFits
<1> DEFINE old == row.mapping
           new == [i \in DOMAIN old |-> BoundEntry(old[i], b)]
<1>4. next = [row EXCEPT !.mapping = new] BY DEF Bound
<1>5. /\ DOMAIN old = 1 .. row.count /\ Len(old) = row.count /\ row.count \in Nat
      /\ \A j \in 1 .. row.count : old[j] = [name |-> old[j].name, path |-> old[j].path, fallback |-> old[j].fallback]
  BY <1>3, MappedNames DEF Mapped
<1> HIDE DEF old
<1>6. DOMAIN new = 1 .. row.count BY <1>5
<1>7. \A j \in 1 .. row.count : new[j] = [name |-> new[j].name, path |-> new[j].path, fallback |-> new[j].fallback]
                                 /\ new[j].name = old[j].name
  <2> TAKE j \in 1 .. row.count
  <2>1. new[j] = BoundEntry(old[j], b) BY <1>5
  <2>2. old[j] = [name |-> old[j].name, path |-> old[j].path, fallback |-> old[j].fallback] BY <1>5
  <2> HIDE DEF new
  <2> QED BY <2>1, <2>2 DEF BoundEntry
<1>8. new = [j \in 1 .. row.count |-> new[j]] BY <1>5
<1> HIDE DEF new
<1>9. Len(new) = row.count /\ new # <<>>
  <2>1. old = [j \in 1 .. row.count |-> old[j]] BY <1>3 DEF Mapped, old
  <2>2. row.count # 0 BY <1>2, <1>5, <2>1, CountedIsSeq DEF old
  <2> QED BY <1>5, <1>6, <1>8, <2>2, CountedIsSeq
<1>10. /\ next.status = row.status /\ next.body = row.body /\ next.count = row.count /\ next.mapping = new
       /\ next.bid = row.bid /\ RowFormed(next)
  BY <1>1, <1>4 DEF RowFormed
<1>11. NamesOf(next) = NamesOf(row)
  BY <1>5, <1>6, <1>7, <1>10 DEF NamesOf, old
<1>12. Mapped(m, next)
  <2>1. \A i \in DOMAIN next.body : InPosition(m, next, i)
    <3> TAKE i \in DOMAIN next.body
    <3>1. InPosition(m, row, i) BY <1>3, <1>10 DEF Mapped
    <3> QED BY <3>1, <1>7, <1>10, <1>11 DEF InPosition, old
  <2>2. \A j \in 1 .. next.count : next.mapping[j].name # "null"
    BY <1>3, <1>7, <1>10 DEF Mapped, old
  <2>3. next.mapping = [j \in 1 .. next.count |->
          [name |-> next.mapping[j].name, path |-> next.mapping[j].path, fallback |-> next.mapping[j].fallback]]
    BY <1>7, <1>8, <1>10
  <2> QED BY <2>1, <2>2, <2>3, <1>3, <1>10 DEF Mapped
<1> QED BY <1>1, <1>2, <1>9, <1>10, <1>11, <1>12 DEF RowFits, SameAuthor

Filed(dto, category) == [Submitted(dto) EXCEPT !.category = category]
MetaFormed(m) == m = [status |-> m.status, category |-> m.category, body |-> m.body, bid |-> m.bid]

(* A body has no more references than names.                               *)
LEMMA FewReferences ==
  ASSUME NEW text \in Seq(Words), NEW n \in Nat, Cardinality(ToSet(text)) <= n
  PROVE  DOMAIN References(text) \subseteq 1 .. n
<1> DEFINE R == References(text)
           D == ToSet(text)
<1>1. DOMAIN text = 1 .. Len(text) /\ Len(text) \in Nat BY LenProperties
<1>2. text \in Surjection(1 .. Len(text), D)
  <2>1. text \in [1 .. Len(text) -> D] BY <1>1, LenProperties DEF ToSet
  <2> QED BY <2>1, <1>1 DEF Surjection, ToSet
<1>3. IsFiniteSet(D) BY <1>1, <1>2, FS_Interval, FS_Surjection
<1>4. R \in Seq(Words) /\ DOMAIN R = 1 .. Len(R) /\ Len(R) \in Nat BY RefsAre, LenProperties
<1>5. \A k \in 1 .. Len(R) : R[k] \in D
  <2> TAKE k \in 1 .. Len(R)
  <2>1. R[k] \in ToSet(R) BY <1>4 DEF ToSet
  <2> QED BY <2>1, RefsNamed
<1>6. Once(R) BY RefsNamed
<1> HIDE DEF R, D
<1>7. R \in [1 .. Len(R) -> D]
  <2>1. R \in [1 .. Len(R) -> Words] BY <1>4, LenProperties
  <2> QED BY <2>1, <1>5
<1>8. R \in Injection(1 .. Len(R), D) BY <1>4, <1>6, <1>7 DEF Injection, IsInjective, Once
<1>9. Cardinality(1 .. Len(R)) = Len(R)
  <2> DEFINE l == Len(R)
  <2>1. l \in Nat /\ l \in Int /\ 1 \in Int BY <1>4
  <2> HIDE DEF l
  <2>2. Cardinality(1 .. l) = IF 1 > l THEN 0 ELSE l - 1 + 1 BY <2>1, FS_Interval
  <2>3. Cardinality(1 .. l) = l BY <2>1, <2>2
  <2> QED BY <2>3 DEF l
<1>10. Len(R) <= Cardinality(D) /\ Cardinality(D) \in Nat BY <1>3, <1>8, <1>9, FS_Injection, FS_CardinalityType
<1>11. Len(R) <= n BY <1>4, <1>10 DEF D
<1> QED BY <1>4, <1>11 DEF R

LEMMA PositionsOnce == Positions \in Seq({"1", "2", "3"}) /\ DOMAIN Positions = 1 .. 3 /\ Len(Positions) = 3 /\ Once(Positions)
<1>1. Positions = <<"1", "2", "3">> BY DEF Positions
<1>2. DOMAIN Positions = 1 .. 3 /\ Len(Positions) = 3 /\ Positions \in Seq({"1", "2", "3"})
  <2>1. Len(Positions) = 3 BY <1>1
  <2>2. Positions \in Seq({"1", "2", "3"}) BY <1>1
  <2> QED BY <2>1, <2>2, LenProperties
<1>3. Positions[1] = "1" /\ Positions[2] = "2" /\ Positions[3] = "3" BY <1>1
<1>4. \A i \in 1 .. 3 : i = 1 \/ i = 2 \/ i = 3 OBVIOUS
<1>5. Once(Positions) BY <1>2, <1>3, <1>4 DEF Once
<1> QED BY <1>2, <1>5

LEMMA TextIsWords == ASSUME NEW text \in Seq(STRING) PROVE text \in Seq(Words)
<1>1. Len(text) \in Nat /\ text \in [1 .. Len(text) -> STRING] BY LenProperties
<1>2. text \in [1 .. Len(text) -> Words] BY <1>1 DEF Words
<1> QED BY <1>1, <1>2 DEF Seq

LEMMA UrlNamesAre ==
  ASSUME NEW B \in Seq([type: STRING, var: STRING]), \A j \in DOMAIN B : B[j].var # "null"
  PROVE  UrlNames(B) \in Seq(Words) /\ \A j \in DOMAIN UrlNames(B) : UrlNames(B)[j] # "null"
<1> DEFINE u == UrlNames(B)
<1>1. DOMAIN B = 1 .. Len(B) /\ Len(B) \in Nat /\ B \in [1 .. Len(B) -> [type: STRING, var: STRING]] BY LenProperties
<1>2. \A j \in DOMAIN B : B[j].var \in STRING
  <2> TAKE j \in DOMAIN B
  <2>1. B[j] \in [type: STRING, var: STRING] BY <1>1
  <2> QED BY <2>1
<1>3. \A j \in DOMAIN B : u[j] = IF B[j].type = "URL" THEN B[j].var ELSE "" BY DEF UrlNames
<1>4. \A j \in DOMAIN B : u[j] \in Words /\ u[j] # "null"
  <2> TAKE j \in DOMAIN B
  <2>1. "" # "null" OBVIOUS
  <2>2. B[j].var \in STRING /\ B[j].var # "null" BY <1>2
  <2>3. u[j] = B[j].var \/ u[j] = "" BY <1>3
  <2> QED BY ONLY <2>1, <2>2, <2>3 DEF Words
<1>5. DOMAIN u = DOMAIN B /\ u = [j \in DOMAIN B |-> u[j]] BY DEF UrlNames
<1> HIDE DEF u
<1>6. u \in [1 .. Len(B) -> Words] BY <1>1, <1>4, <1>5
<1> QED BY <1>1, <1>4, <1>5, <1>6 DEF Seq, u

(* The position of a name at Meta is its place among the references.       *)
LEMMA PlaceOfName ==
  ASSUME NEW dto, TemplateDtoOK(dto), NEW i \in DOMAIN dto.body
  PROVE  LET k == At(Refs(dto), dto.body[i]) IN
         k \in DOMAIN Refs(dto) /\ Refs(dto)[k] = dto.body[i] /\ At(Positions, Positional(dto.body)[i]) = k
<1> DEFINE text == dto.body
           u == UrlNames(dto.buttons)
           R == References(text)
           Q == Refs(dto)
<1>1. text \in Seq(Words) /\ ToSet(text) \cap {"", "null"} = {} /\ Cardinality(ToSet(text)) <= 3
  BY PositionsOnce, TextIsWords DEF TemplateDtoOK
<1>2. u \in Seq(Words) BY UrlNamesAre DEF TemplateDtoOK
<1>3. Q = References(text \o u) /\ text \o u \in Seq(Words) BY <1>1, <1>2, ConcatProperties DEF Refs
<1>4. text[i] \in ToSet(text) \ {""} /\ text[i] \in ToSet(text) BY <1>1 DEF ToSet
<1> HIDE DEF text, u
<1>5. text[i] \in ToSet(R) BY <1>1, <1>4, RefsNamed
<1>6. PICK k \in DOMAIN R : R[k] = text[i] BY <1>5 DEF ToSet
<1>7. k \in DOMAIN Q /\ Q[k] = text[i]
  <2>1. k \in DOMAIN References(text \o u) /\ References(text \o u)[k] = References(text)[k] BY <1>1, <1>2, RefsGrow
  <2> QED BY <2>1, <1>3, <1>6
<1>8. Once(R) /\ R \in Seq(Words) /\ Once(Q) /\ Q \in Seq(Words) BY <1>1, <1>3, RefsNamed, RefsAre
<1>9. k \in 1 .. 3 BY <1>1, FewReferences
<1> HIDE DEF R, Q
<1>10. At(R, text[i]) = k /\ At(Q, text[i]) = k BY <1>6, <1>7, <1>8, AtIs
<1>11. Positional(text)[i] = Positions[k]
  <2>1. i \in DOMAIN text BY DEF text
  <2> QED BY <2>1, <1>10 DEF Positional, R
<1>12. At(Positions, Positions[k]) = k BY <1>9, PositionsOnce, AtIs
<1> QED BY <1>7, <1>10, <1>11, <1>12 DEF text, Q

LEMMA RefsOfDto ==
  ASSUME NEW dto, TemplateDtoOK(dto)
  PROVE  /\ Refs(dto) \in Seq(Words) /\ DOMAIN Refs(dto) = 1 .. Len(Refs(dto)) /\ Len(Refs(dto)) \in Nat
         /\ \A k \in DOMAIN Refs(dto) : Refs(dto)[k] # "null"
<1> DEFINE text == dto.body
           B == dto.buttons
           u == UrlNames(B)
           all == text \o u
<1>1. text \in Seq(Words) /\ "null" \notin ToSet(text) BY TextIsWords DEF TemplateDtoOK
<1>2. B \in Seq([type: STRING, var: STRING]) /\ \A j \in DOMAIN B : B[j].var # "null" BY DEF TemplateDtoOK
<1>3. u \in Seq(Words) /\ \A j \in DOMAIN u : u[j] # "null" BY <1>2, UrlNamesAre
<1>4. Refs(dto) = References(all) BY DEF Refs
<1> HIDE DEF text, u, B
<1>5. all \in Seq(Words) BY <1>1, <1>3, ConcatProperties
<1>6. \A j \in DOMAIN all : all[j] # "null"
  <2> TAKE j \in DOMAIN all
  <2>1. DOMAIN text = 1 .. Len(text) /\ Len(text) \in Nat /\ DOMAIN u = 1 .. Len(u) /\ Len(u) \in Nat BY <1>1, <1>3, LenProperties
  <2>2. Len(all) = Len(text) + Len(u) /\ DOMAIN all = 1 .. Len(all) BY <1>1, <1>3, <1>5, ConcatProperties, LenProperties
  <2>3. all[j] = IF j <= Len(text) THEN text[j] ELSE u[j - Len(text)] BY <1>1, <1>3, <2>2, ConcatProperties
  <2>4. j \in 1 .. Len(text) + Len(u) BY <2>2
  <2>5. j <= Len(text) => j \in DOMAIN text BY <2>1, <2>4
  <2>6. ~(j <= Len(text)) => j - Len(text) \in DOMAIN u BY <2>1, <2>4
  <2> QED BY <2>3, <2>5, <2>6, <1>1, <1>3 DEF ToSet
<1> HIDE DEF all
<1>7. \A k \in DOMAIN References(all) : References(all)[k] # "null"
  <2> TAKE k \in DOMAIN References(all)
  <2>1. References(all)[k] \in ToSet(all) BY <1>5, RefsNamed DEF ToSet
  <2> QED BY <2>1, <1>6 DEF ToSet
<1>8. References(all) \in Seq(Words) BY <1>5, RefsAre
<1> QED BY <1>4, <1>7, <1>8, LenProperties

LEMMA CountNone == CountVariables(<<>>) = 0
<1>1. ToSet(<<>>) = {} BY DEF ToSet
<1>2. {0} \cup {k \in DOMAIN Positions : Positions[k] \in ToSet(<<>>)} = {0} BY <1>1
<1>3. \A x \in {0} : x = 0 OBVIOUS
<1>4. \E x \in {0} : \A y \in {0} : x >= y OBVIOUS
<1>5. Max({0}) = 0 BY ONLY <1>3, <1>4 DEF Max
<1> QED BY <1>2, <1>5 DEF CountVariables

LEMMA AuthoredFits ==
  ASSUME NEW dto, TemplateDtoOK(dto), NEW cat, NEW m, m = Filed(dto, cat), NEW row, row = Authored(dto, m)
  PROVE  RowFits(m, row) /\ row.bid = m.bid /\ MetaFormed(m) /\ m # NoTemplate
<1> DEFINE Q == Refs(dto)
<1>1. Q \in Seq(Words) /\ DOMAIN Q = 1 .. Len(Q) /\ Len(Q) \in Nat /\ \A k \in DOMAIN Q : Q[k] # "null" BY RefsOfDto
<1>2. m.status = "PENDING" /\ m.body = Positional(dto.body) /\ m.bid = (dto.category = "MARKETING") /\ MetaFormed(m)
  BY DEF Filed, Submitted, MetaFormed
<1>3. m # NoTemplate
  <2>1. NoTemplate.status = "none" BY DEF NoTemplate
  <2> QED BY <2>1, <1>2
<1>4. /\ row.status = StatusOf(m.status) /\ row.body = dto.body /\ row.mapping = Mapping(dto) /\ row.count = Len(Q)
      /\ row.bid = (dto.category = "MARKETING") /\ RowFormed(row)
  BY DEF Authored, RowFormed
<1>5. Mapping(dto) = [i \in DOMAIN Q |-> Entry(dto, Q[i])] BY DEF Mapping
<1> HIDE DEF Q
<1>6. \A j \in 1 .. Len(Q) : /\ row.mapping[j].name = Q[j]
                             /\ row.mapping[j] = [name |-> row.mapping[j].name, path |-> row.mapping[j].path, fallback |-> row.mapping[j].fallback]
  <2> TAKE j \in 1 .. Len(Q)
  <2>1. row.mapping[j] = Entry(dto, Q[j]) BY <1>1, <1>4, <1>5
  <2> QED BY <2>1 DEF Entry
<1>7. DOMAIN row.mapping = 1 .. Len(Q) /\ row.mapping = [j \in 1 .. Len(Q) |-> row.mapping[j]] BY <1>1, <1>4, <1>5
<1>8. NamesOf(row) = Q
  <2>1. NamesOf(row) = [j \in 1 .. Len(Q) |-> Q[j]] BY <1>6, <1>7 DEF NamesOf
  <2>2. Q = [j \in 1 .. Len(Q) |-> Q[j]] BY <1>1, LenProperties
  <2> QED BY <2>1, <2>2
<1>9. Mapped(m, row)
  <2>1. row.count \in Nat /\ row.count = Len(Q) BY <1>1, <1>4
  <2>2. row.mapping = [j \in 1 .. row.count |->
          [name |-> row.mapping[j].name, path |-> row.mapping[j].path, fallback |-> row.mapping[j].fallback]]
    BY <1>6, <1>7, <2>1
  <2>3. \A j \in 1 .. row.count : row.mapping[j].name # "null"
    <3> TAKE j \in 1 .. row.count
    <3>1. j \in 1 .. Len(Q) /\ j \in DOMAIN Q BY <1>1, <2>1
    <3> QED BY <3>1, <1>1, <1>6
  <2>4. DOMAIN m.body = DOMAIN row.body BY <1>2, <1>4 DEF Positional
  <2>5. \A i \in DOMAIN row.body : InPosition(m, row, i)
    <3> TAKE i \in DOMAIN row.body
    <3> DEFINE k == At(Q, row.body[i])
    <3>1. k \in DOMAIN Q /\ Q[k] = row.body[i] /\ At(Positions, m.body[i]) = k
      BY <1>2, <1>4, PlaceOfName DEF Q
    <3> HIDE DEF k
    <3>2. k = At(NamesOf(row), row.body[i]) BY <1>8 DEF k
    <3>3. row.mapping[k].name = row.body[i] BY <1>1, <1>6, <3>1
    <3> QED BY <3>1, <3>2, <3>3, <1>1, <2>1 DEF InPosition
  <2> QED BY <2>1, <2>2, <2>3, <2>4, <2>5 DEF Mapped
<1>10. row.mapping = <<>> => row.count = CountVariables(row.body) /\ row.body = m.body
  <2> SUFFICES ASSUME row.mapping = <<>> PROVE row.count = CountVariables(row.body) /\ row.body = m.body OBVIOUS
  <2>1. Len(Q) = 0 BY <1>1, <1>7, CountedIsSeq
  <2>2. DOMAIN row.body = {}
    <3> SUFFICES ASSUME NEW i \in DOMAIN row.body PROVE FALSE OBVIOUS
    <3>1. InPosition(m, row, i) BY <1>9 DEF Mapped
    <3> QED BY <3>1, <2>1, <1>4 DEF InPosition
  <2>3. row.body \in Seq(Words) BY <1>4, TextIsWords DEF TemplateDtoOK
  <2>4. Len(row.body) = 0
    <3>1. Len(row.body) \in Nat /\ 1 .. Len(row.body) = {} BY <2>2, <2>3, LenProperties
    <3>2. Len(row.body) > 0 => 1 \in 1 .. Len(row.body) BY <3>1
    <3> QED BY <3>1, <3>2
  <2>5. row.body = <<>> BY <2>3, <2>4, EmptySeq
  <2>6. Positional(<<>>) = <<>> BY DEF Positional
  <2> QED BY <2>1, <2>5, <2>6, <1>2, <1>4, CountNone
<1>11. row.status \in TemplateStatuses BY <1>4, StatusKnown
<1> QED BY <1>2, <1>3, <1>4, <1>9, <1>10, <1>11 DEF RowFits

(* A value is the name's own, its fallback or a blank, on every path.      *)
ValueFits(row, values, j) == values[j] \in {row.mapping[j].name, row.mapping[j].fallback, ""}
Listlike(values) == values = [j \in DOMAIN values |-> values[j]]
ValuesFit(row, values) ==
  DOMAIN values = 1 .. row.count /\ Listlike(values) /\ \A j \in 1 .. row.count : ValueFits(row, values, j)
FallbackStands(row, values) ==
  \A j \in 1 .. row.count : values[j] = "" => row.mapping[j].fallback \in {"", "null"}

LEMMA Resolves == \A n, t : ResolvedForTicket(n, t) \in {n, ""} /\ ResolvedForPhone(n, t) \in {n, ""}
<1>1. ASSUME NEW n, NEW t PROVE ResolvedForTicket(n, t) \in {n, ""}
  <2> DEFINE b == \/ n \in {"ticket_id", "inbox", "customer_id"} \/ (n = "phone_number" /\ t.whatsapp)
                  \/ (n = "email" /\ t.mail) \/ FromOrder(n, t)
  <2>1. ResolvedForTicket(n, t) = IF b THEN n ELSE "" BY DEF ResolvedForTicket
  <2> HIDE DEF b
  <2> QED BY <2>1
<1>2. ASSUME NEW n, NEW t PROVE ResolvedForPhone(n, t) \in {n, ""}
  <2> DEFINE b == n \in {"customer_id", "phone_number"} \/ FromOrder(n, t)
  <2>1. ResolvedForPhone(n, t) = IF b THEN n ELSE "" BY DEF ResolvedForPhone
  <2> HIDE DEF b
  <2> QED BY <2>1
<1> QED BY <1>1, <1>2

(* What is filled in where the name is found or nothing is.                *)
FilledAt(row, values, j) == \E f \in {row.mapping[j].name, ""} : values[j] = OrFallback(f, row.mapping[j])
LEMMA FilledFits ==
  ASSUME NEW m, NEW row, Mapped(m, row), NEW values,
         DOMAIN values = DOMAIN row.mapping, Listlike(values),
         \A j \in DOMAIN row.mapping : FilledAt(row, values, j)
  PROVE  ValuesFit(row, values) /\ FallbackStands(row, values)
<1>1. DOMAIN row.mapping = 1 .. row.count BY MappedNames
<1>2. \A j \in 1 .. row.count : ValueFits(row, values, j) /\ (values[j] = "" => row.mapping[j].fallback = "")
  BY <1>1 DEF FilledAt, ValueFits, OrFallback
<1> QED BY <1>1, <1>2 DEF ValuesFit, FallbackStands

LEMMA BlanksFit ==
  ASSUME NEW m, NEW row, Mapped(m, row), NEW values, ValuesFit(row, values), FallbackStands(row, values)
  PROVE  ValuesFit(row, OrBlank(values)) /\ FallbackStands(row, OrBlank(values))
<1> DEFINE w == OrBlank(values)
<1>1. DOMAIN w = 1 .. row.count /\ Listlike(w) BY DEF OrBlank, ValuesFit, Listlike
<1>2. \A j \in 1 .. row.count : w[j] = IF values[j] = "null" THEN "" ELSE values[j] BY DEF OrBlank, ValuesFit, Null
<1>3. \A j \in 1 .. row.count : row.mapping[j].name # "null" BY DEF Mapped
<1> HIDE DEF w
<1>4. \A j \in 1 .. row.count : ValueFits(row, w, j) BY <1>2 DEF ValuesFit, ValueFits
<1>5. \A j \in 1 .. row.count : w[j] = "" => row.mapping[j].fallback \in {"", "null"}
  <2> TAKE j \in 1 .. row.count
  <2>1. values[j] \in {row.mapping[j].name, row.mapping[j].fallback, ""} BY DEF ValuesFit, ValueFits
  <2>2. values[j] = "" => row.mapping[j].fallback \in {"", "null"} BY DEF FallbackStands
  <2> QED BY <2>1, <2>2, <1>2, <1>3
<1> QED BY <1>1, <1>4, <1>5 DEF ValuesFit, FallbackStands, w

(* Read by name and read by position, the values give the same text.       *)
LEMMA RendersAlike ==
  ASSUME NEW m, NEW row, Mapped(m, row), NEW values, ValuesFit(row, values)
  PROVE  RenderNamed(row.body, NamesOf(row), values) = RenderPositional(m.body, values)
<1>1. row.count \in Nat /\ DOMAIN m.body = DOMAIN row.body /\ \A i \in DOMAIN row.body : InPosition(m, row, i) BY DEF Mapped
<1>2. DOMAIN NamesOf(row) = 1 .. row.count /\ \A j \in 1 .. row.count : NamesOf(row)[j] = row.mapping[j].name BY MappedNames
<1>3. Len(values) = row.count BY <1>1, CountedIsSeq DEF ValuesFit, Listlike
<1>4. ASSUME NEW i \in DOMAIN row.body
      PROVE  (IF row.body[i] \in ToSet(NamesOf(row)) THEN values[At(NamesOf(row), row.body[i])] ELSE row.body[i])
               = (IF At(Positions, m.body[i]) <= Len(values) THEN values[At(Positions, m.body[i])] ELSE "")
  <2>1. PICK j \in 1 .. row.count : j = At(NamesOf(row), row.body[i]) /\ row.mapping[j].name = row.body[i] /\ At(Positions, m.body[i]) = j
    BY <1>1 DEF InPosition
  <2>2. row.body[i] \in ToSet(NamesOf(row))
    <3>1. NamesOf(row)[j] = row.body[i] /\ j \in DOMAIN NamesOf(row) BY <1>2, <2>1
    <3> QED BY <3>1 DEF ToSet
  <2>3. j <= Len(values) BY <1>1, <1>3
  <2> QED BY <2>1, <2>2, <2>3
<1> QED BY <1>1, <1>4 DEF RenderNamed, RenderPositional

InPlace(m, row, values, i) ==
  LET v == values[At(Positions, m.body[i])] IN
  v = row.body[i] \/ \E j \in DOMAIN row.mapping : row.mapping[j].name = row.body[i] /\ v \in {row.mapping[j].fallback, ""}

LEMMA PlacedValue ==
  ASSUME NEW m, NEW row, Mapped(m, row), NEW values, ValuesFit(row, values), NEW i \in DOMAIN row.body
  PROVE  InPlace(m, row, values, i)
<1>1. PICK j \in 1 .. row.count : row.mapping[j].name = row.body[i] /\ At(Positions, m.body[i]) = j
  BY DEF Mapped, InPosition
<1>2. ValueFits(row, values, j) /\ j \in DOMAIN row.mapping BY MappedNames DEF ValuesFit
<1> QED BY <1>1, <1>2 DEF ValueFits, InPlace

(* A row that was read is still by the same author when it is saved.       *)
RowRead(k, row) ==
  RowFits(meta[k], row) /\ templateRows[k] # NoTemplate /\ SameAuthor(templateRows[k], row)
CreateFits(c) ==
  /\ c.req.kind = "create" /\ c.req.key \in Keys /\ TemplateDtoOK(c.req.dto) /\ c.phase \in {"post", "save"}
  /\ c = [req |-> c.req, phase |-> c.phase, seen |-> c.seen, todo |-> c.todo]
  /\ c.phase = "save" => RowFits(meta[c.req.key], c.seen) /\ c.seen.bid = meta[c.req.key].bid /\ meta[c.req.key] # NoTemplate
Listed(c, k) == k \in Keys /\ c.seen[k] # NoTemplate /\ meta[k] # NoTemplate /\ c.seen[k].body = meta[k].body
SyncFits(c) ==
  /\ c.req.kind = "sync" /\ c.phase \in {"list", "save"} /\ \A k \in c.todo : Listed(c, k)
  /\ c.phase = "save" => c.at \in c.todo /\ (c.row # NoTemplate => RowRead(c.at, c.row))
BindFits(c) == c.req.kind = "bind" /\ c.req.key \in Keys /\ RowRead(c.req.key, c.seen)
CallFits(c) == CreateFits(c) \/ SyncFits(c) \/ BindFits(c)

Awaited(q) ==
  /\ q.kind \in {"create", "bind", "review"} => q.key \in Keys
  /\ q.kind = "create" => TemplateDtoOK(q.dto)

MetaFits == DOMAIN meta = Keys /\ \A k \in Keys : meta[k] # NoTemplate => MetaFormed(meta[k])
RowsFit  == DOMAIN templateRows = Keys /\ \A k \in Keys : templateRows[k] # NoTemplate => RowFits(meta[k], templateRows[k])

(* A bid cap is only unknown while the create that gave it saves its row,  *)
(* and where there is no row nobody gave one.                              *)
Saving(k) == \E c \in templateCalls : c.req.kind = "create" /\ c.req.key = k /\ c.phase = "save"
BidsFit   ==
  \A k \in Keys : meta[k] # NoTemplate /\ k \notin lost /\ ~Saving(k) =>
    IF templateRows[k] = NoTemplate THEN meta[k].bid = FALSE ELSE templateRows[k].bid = meta[k].bid

SentFits ==
  sent.path # "none" => sent.key \in Keys /\ meta[sent.key] # NoTemplate /\ RenderedAsSent /\ InItsPlace /\ FallbackUsed

TemplatesInv ==
  /\ MetaFits /\ RowsFit /\ BidsFit /\ SentFits
  /\ \A c \in templateCalls : CallFits(c)
  /\ \A q \in due : Awaited(q)
  /\ lost \subseteq Keys /\ templateFaults \in Nat
----------------------------------------------------------------------------
(* What Meta has registered keeps its body and its bid cap, and a row its  *)
(* author.                                                                 *)
Grows ==
  \A k \in Keys :
    /\ meta[k] # NoTemplate => meta'[k] # NoTemplate /\ meta'[k].body = meta[k].body /\ meta'[k].bid = meta[k].bid
    /\ templateRows[k] # NoTemplate => templateRows'[k] # NoTemplate /\ SameAuthor(templateRows[k], templateRows'[k])

LEMMA AuthorAlike ==
  /\ \A r : SameAuthor(r, r)
  /\ \A r, s, t : SameAuthor(r, s) /\ SameAuthor(r, t) => SameAuthor(s, t)
  /\ \A r, s, t : SameAuthor(r, s) /\ SameAuthor(s, t) => SameAuthor(r, t)
  BY DEF SameAuthor

LEMMA ReadStands ==
  ASSUME NEW k \in Keys, NEW row, RowRead(k, row), Grows
  PROVE  RowRead(k, row)'
<1>1. RowFits(meta[k], row) /\ templateRows[k] # NoTemplate /\ SameAuthor(templateRows[k], row) BY DEF RowRead
<1>2. meta[k] # NoTemplate BY <1>1 DEF RowFits
<1>3. meta'[k] # NoTemplate /\ meta'[k].body = meta[k].body BY <1>2 DEF Grows
<1>4. RowFits(meta'[k], row) BY <1>1, <1>3, FitsStill
<1>5. templateRows'[k] # NoTemplate /\ SameAuthor(templateRows[k], templateRows'[k]) BY <1>1 DEF Grows
<1>6. SameAuthor(templateRows'[k], row) BY <1>1, <1>5, AuthorAlike
<1> QED BY <1>4, <1>5, <1>6 DEF RowRead

LEMMA CallStands ==
  ASSUME NEW c, CallFits(c), Grows
  PROVE  CallFits(c)'
<1>1. CASE CreateFits(c)
  <2>1. c.req.key \in Keys BY <1>1 DEF CreateFits
  <2>2. c.phase = "save" => RowFits(meta'[c.req.key], c.seen) /\ c.seen.bid = meta'[c.req.key].bid /\ meta'[c.req.key] # NoTemplate
    <3> SUFFICES ASSUME c.phase = "save"
                 PROVE  RowFits(meta'[c.req.key], c.seen) /\ c.seen.bid = meta'[c.req.key].bid /\ meta'[c.req.key] # NoTemplate
      OBVIOUS
    <3> DEFINE k == c.req.key
    <3>1. RowFits(meta[k], c.seen) /\ c.seen.bid = meta[k].bid /\ meta[k] # NoTemplate BY <1>1 DEF CreateFits
    <3> HIDE DEF k
    <3>2. meta'[k] # NoTemplate /\ meta'[k].body = meta[k].body /\ meta'[k].bid = meta[k].bid BY <2>1, <3>1 DEF Grows, k
    <3>3. RowFits(meta'[k], c.seen) BY <3>1, <3>2, FitsStill
    <3> QED BY <3>1, <3>2, <3>3 DEF k
  <2>3. CreateFits(c)' BY <1>1, <2>2 DEF CreateFits
  <2> QED BY <2>3 DEF CallFits
<1>2. CASE SyncFits(c)
  <2>1. \A k \in c.todo : Listed(c, k)'
    <3> TAKE k \in c.todo
    <3>1. Listed(c, k) BY <1>2 DEF SyncFits
    <3>2. k \in Keys /\ meta[k] # NoTemplate BY <3>1 DEF Listed
    <3>3. meta'[k] # NoTemplate /\ meta'[k].body = meta[k].body BY <3>2 DEF Grows
    <3> QED BY <3>1, <3>3 DEF Listed
  <2>2. c.phase = "save" /\ c.row # NoTemplate => RowRead(c.at, c.row)'
    <3> SUFFICES ASSUME c.phase = "save", c.row # NoTemplate PROVE RowRead(c.at, c.row)' OBVIOUS
    <3> DEFINE k == c.at
               row == c.row
    <3>1. k \in Keys /\ RowRead(k, row) BY <1>2 DEF SyncFits, Listed
    <3> HIDE DEF k, row
    <3>2. RowRead(k, row)' BY <3>1, ReadStands
    <3> QED BY <3>2 DEF k, row
  <2>3. SyncFits(c)' BY <1>2, <2>1, <2>2 DEF SyncFits
  <2> QED BY <2>3 DEF CallFits
<1>3. CASE BindFits(c)
  <2> DEFINE k == c.req.key
             row == c.seen
  <2>1. k \in Keys /\ RowRead(k, row) BY <1>3 DEF BindFits
  <2> HIDE DEF k, row
  <2>2. RowRead(k, row)' BY <2>1, ReadStands
  <2>3. BindFits(c)' BY <1>3, <2>2 DEF BindFits, k, row
  <2> QED BY <2>3 DEF CallFits
<1> QED BY <1>1, <1>2, <1>3 DEF CallFits

LEMMA SentStands == ASSUME SentFits, Grows, UNCHANGED sent PROVE SentFits'
<1>1. CASE sent.path = "none" BY <1>1 DEF SentFits
<1>2. CASE sent.path # "none"
  <2>1. sent.key \in Keys /\ meta[sent.key] # NoTemplate /\ RenderedAsSent /\ InItsPlace /\ FallbackUsed BY <1>2 DEF SentFits
  <2>2. meta'[sent.key] # NoTemplate /\ meta'[sent.key].body = meta[sent.key].body BY <2>1 DEF Grows
  <2>3. RenderedAsSent' BY <2>1, <2>2 DEF RenderedAsSent
  <2>4. InItsPlace' BY <2>1, <2>2 DEF InItsPlace
  <2>5. FallbackUsed' BY <2>1 DEF FallbackUsed, FallbackUsedOn
  <2> QED BY <2>1, <2>2, <2>3, <2>4, <2>5 DEF SentFits
<1> QED BY <1>1, <1>2

LEMMA RowsStand == ASSUME RowsFit, Grows, UNCHANGED templateRows PROVE RowsFit'
<1> SUFFICES ASSUME NEW k \in Keys, templateRows[k] # NoTemplate PROVE RowFits(meta'[k], templateRows[k]) BY DEF RowsFit
<1>1. RowFits(meta[k], templateRows[k]) BY DEF RowsFit
<1>2. meta[k] # NoTemplate BY <1>1 DEF RowFits
<1>3. meta'[k] # NoTemplate /\ meta'[k].body = meta[k].body BY <1>2 DEF Grows
<1> QED BY <1>1, <1>3, FitsStill

LEMMA QuietGrows == ASSUME UNCHANGED <<meta, templateRows>> PROVE Grows
  BY AuthorAlike DEF Grows

(* The end of every step: what it writes is fit, and it leaves the rest.   *)
LEMMA TemplateEnds ==
  ASSUME TemplatesInv, Grows, UNCHANGED sent,
         \A c \in templateCalls' : c \in templateCalls \/ CallFits(c)',
         due' \subseteq due, lost' \subseteq Keys, templateFaults' \in Nat, MetaFits', RowsFit', BidsFit'
  PROVE  TemplatesInv'
<1>1. \A c \in templateCalls' : CallFits(c)'
  <2> TAKE c \in templateCalls'
  <2>1. CASE c \in templateCalls
    <3>1. CallFits(c) BY <2>1 DEF TemplatesInv
    <3> QED BY <3>1, CallStands
  <2>2. CASE CallFits(c)' BY <2>2
  <2> QED BY <2>1, <2>2
<1>2. SentFits' BY SentStands DEF TemplatesInv
<1>3. \A q \in due' : Awaited(q)' BY DEF TemplatesInv, Awaited
<1> QED BY <1>1, <1>2, <1>3 DEF TemplatesInv

(* Where neither side's rows move, a bid cap is unknown as long as it was. *)
LEMMA BidsStand ==
  ASSUME BidsFit, UNCHANGED <<meta, templateRows, lost>>, \A k \in Keys : Saving(k) => Saving(k)'
  PROVE  BidsFit'
  BY DEF BidsFit

LEMMA SavingStays ==
  ASSUME NEW c, templateCalls \ {c} \subseteq templateCalls', ~(c.req.kind = "create" /\ c.phase = "save"), NEW k
  PROVE  Saving(k) => Saving(k)'
<1> SUFFICES ASSUME NEW d \in templateCalls, d.req.kind = "create", d.req.key = k, d.phase = "save" PROVE Saving(k)'
  BY DEF Saving
<1>1. d # c OBVIOUS
<1>2. d \in templateCalls' BY <1>1
<1> QED BY <1>2 DEF Saving

LEMMA SavingGrows == ASSUME templateCalls \subseteq templateCalls', NEW k PROVE Saving(k) => Saving(k)'
  BY DEF Saving

LEMMA CreateLooksInv == ASSUME TemplatesInv, NEW q \in due, CreateLooks(q) PROVE TemplatesInv'
<1> DEFINE d == [req |-> q, phase |-> "post", seen |-> NoTemplate, todo |-> {}]
<1>1. q.kind = "create" /\ UNCHANGED <<meta, templateRows, templateFaults, lost, sent>> /\ due' \subseteq due
  BY DEF CreateLooks, Leaves
<1>2. templateCalls' \subseteq templateCalls \cup {d} /\ templateCalls \subseteq templateCalls'
  BY DEF CreateLooks, CallArrives
<1>3. CallFits(d)'
  <2>1. q.key \in Keys /\ TemplateDtoOK(q.dto) BY <1>1 DEF TemplatesInv, Awaited
  <2>2. d.req = q /\ d.phase = "post" /\ d = [req |-> d.req, phase |-> d.phase, seen |-> d.seen, todo |-> d.todo] OBVIOUS
  <2> HIDE DEF d
  <2> QED BY <1>1, <2>1, <2>2 DEF CallFits, CreateFits
<1> HIDE DEF d
<1>4. Grows BY <1>1, QuietGrows
<1>5. RowsFit' /\ MetaFits' BY <1>1, <1>4, RowsStand DEF TemplatesInv, MetaFits
<1>6. BidsFit' BY <1>1, <1>2, SavingGrows, BidsStand DEF TemplatesInv
<1>7. lost' \subseteq Keys /\ templateFaults' \in Nat BY <1>1 DEF TemplatesInv
<1>8. \A e \in templateCalls' : e \in templateCalls \/ CallFits(e)' BY <1>2, <1>3
<1> QED BY <1>1, <1>2, <1>4, <1>5, <1>6, <1>7, <1>8, TemplateEnds

LEMMA CreatePostsInv == ASSUME TemplatesInv, NEW c \in templateCalls, CreatePosts(c) PROVE TemplatesInv'
<1> DEFINE k == c.req.key
           dto == c.req.dto
<1>1. c.req.kind = "create" /\ c.phase = "post" /\ UNCHANGED <<templateRows, due, sent>> BY DEF CreatePosts
<1>2. k \in Keys /\ TemplateDtoOK(dto) /\ c = [req |-> c.req, phase |-> c.phase, seen |-> c.seen, todo |-> c.todo]
  BY <1>1 DEF TemplatesInv, CallFits, CreateFits, SyncFits, BindFits
<1>3. MetaFits /\ RowsFit /\ BidsFit /\ lost \subseteq Keys /\ templateFaults \in Nat BY DEF TemplatesInv
<1>4. CASE meta[k] # NoTemplate /\ CallEnds(c) /\ UNCHANGED <<meta, templateFaults, lost>>
  <2>1. Grows BY <1>1, <1>4, QuietGrows
  <2>2. RowsFit' /\ MetaFits' BY <1>1, <1>3, <1>4, <2>1, RowsStand DEF MetaFits
  <2>3. templateCalls' = templateCalls \ {c} BY <1>4 DEF CallEnds
  <2>4. \A x \in Keys : Saving(x) => Saving(x)' BY <1>1, <2>3, SavingStays
  <2>5. BidsFit' BY <1>1, <1>3, <1>4, <2>4, BidsStand
  <2>6. lost' \subseteq Keys /\ templateFaults' \in Nat /\ due' \subseteq due /\ \A e \in templateCalls' : e \in templateCalls
    BY <1>1, <1>3, <1>4, <2>3
  <2> QED BY <1>1, <2>1, <2>2, <2>5, <2>6, TemplateEnds
<1> PICK m : m = meta'[k] OBVIOUS
<1> PICK row : row = Authored(dto, m) OBVIOUS
<1> PICK d : d = [c EXCEPT !.phase = "save", !.seen = row] OBVIOUS
<1>5. ASSUME meta[k] = NoTemplate, NEW cat, meta' = [meta EXCEPT ![k] = Filed(dto, cat)]
      PROVE  /\ RowFits(m, row) /\ row.bid = m.bid /\ m # NoTemplate
             /\ MetaFits' /\ Grows /\ RowsFit' /\ templateRows[k] = NoTemplate /\ \A x \in Keys : x # k => meta'[x] = meta[x]
  <2>1. m = Filed(dto, cat) /\ \A x \in Keys : x # k => meta'[x] = meta[x]
    BY <1>2, <1>3, <1>5 DEF MetaFits
  <2> HIDE DEF dto, k
  <2>2. RowFits(m, row) /\ row.bid = m.bid /\ m # NoTemplate /\ MetaFormed(m)
    BY <1>2, <2>1, AuthoredFits
  <2>3. MetaFits' BY <1>2, <1>3, <1>5, <2>1, <2>2 DEF MetaFits
  <2>4. templateRows[k] = NoTemplate
    <3> SUFFICES ASSUME templateRows[k] # NoTemplate PROVE FALSE OBVIOUS
    <3>1. RowFits(meta[k], templateRows[k]) BY <1>2, <1>3 DEF RowsFit
    <3> QED BY <3>1, <1>5 DEF RowFits
  <2>5. Grows
    <3> SUFFICES ASSUME NEW x \in Keys
                 PROVE  /\ meta[x] # NoTemplate => meta'[x] # NoTemplate /\ meta'[x].body = meta[x].body /\ meta'[x].bid = meta[x].bid
                        /\ templateRows[x] # NoTemplate => templateRows'[x] # NoTemplate /\ SameAuthor(templateRows[x], templateRows'[x])
      BY DEF Grows
    <3>1. CASE x = k BY <3>1, <1>1, <1>5, <2>4
    <3>2. CASE x # k BY <3>2, <1>1, <2>1, AuthorAlike
    <3> QED BY <3>1, <3>2
  <2>6. RowsFit' BY <1>1, <1>3, <2>5, RowsStand
  <2> QED BY <2>1, <2>2, <2>3, <2>4, <2>5, <2>6
<1>6. CASE /\ meta[k] = NoTemplate /\ templateFaults > 0 /\ templateFaults' = templateFaults - 1 /\ CallEnds(c)
           /\ meta' = [meta EXCEPT ![k] = Submitted(dto)] /\ lost' = lost \cup {k}
  <2>1. Submitted(dto) = Filed(dto, dto.category) BY DEF Filed, Submitted
  <2>2. meta' = [meta EXCEPT ![k] = Filed(dto, dto.category)] BY <1>6, <2>1
  <2> HIDE DEF dto
  <2>3. MetaFits' /\ Grows /\ RowsFit' /\ \A x \in Keys : x # k => meta'[x] = meta[x] BY <1>5, <1>6, <2>2
  <2>4. templateCalls' = templateCalls \ {c} BY <1>6 DEF CallEnds
  <2>5. \A x \in Keys : Saving(x) => Saving(x)' BY <1>1, <2>4, SavingStays
  <2>6. BidsFit'
    <3> SUFFICES ASSUME NEW x \in Keys, meta'[x] # NoTemplate, x \notin lost', ~Saving(x)'
                 PROVE  IF templateRows'[x] = NoTemplate THEN meta'[x].bid = FALSE ELSE templateRows'[x].bid = meta'[x].bid
      BY DEF BidsFit
    <3>1. x # k /\ x \notin lost /\ ~Saving(x) BY <1>6, <2>5
    <3> QED BY <3>1, <2>3, <1>1, <1>3 DEF BidsFit
  <2>7. lost' \subseteq Keys /\ templateFaults' \in Nat /\ due' \subseteq due /\ \A e \in templateCalls' : e \in templateCalls
    BY <1>1, <1>2, <1>3, <1>6, <2>4
  <2> QED BY <1>1, <2>3, <2>6, <2>7, TemplateEnds
<1>7. ASSUME NEW cat, meta[k] = NoTemplate, meta' = [meta EXCEPT ![k] = Filed(dto, cat)],
             GoesOnAs(c, d), UNCHANGED <<templateFaults, lost>>
      PROVE  TemplatesInv'
  <2>1. /\ RowFits(m, row) /\ row.bid = m.bid /\ m # NoTemplate
        /\ MetaFits' /\ Grows /\ RowsFit' /\ \A x \in Keys : x # k => meta'[x] = meta[x]
    BY <1>5, <1>7
  <2>2. d.req = c.req /\ d.phase = "save" /\ d.seen = row /\ d = [req |-> d.req, phase |-> d.phase, seen |-> d.seen, todo |-> d.todo]
    BY <1>2
  <2>3. templateCalls' = (templateCalls \ {c}) \cup {d} BY <1>7 DEF GoesOnAs
  <2>4. CreateFits(d)' BY <1>1, <1>2, <2>1, <2>2 DEF CreateFits
  <2>5. \A x \in Keys : Saving(x) => Saving(x)' BY <1>1, <2>3, SavingStays
  <2>6. Saving(k)'
    <3>1. d \in templateCalls' /\ d.req.kind = "create" /\ d.req.key = k /\ d.phase = "save" BY <1>1, <2>2, <2>3
    <3> QED BY <3>1 DEF Saving
  <2>7. BidsFit'
    <3> SUFFICES ASSUME NEW x \in Keys, meta'[x] # NoTemplate, x \notin lost', ~Saving(x)'
                 PROVE  IF templateRows'[x] = NoTemplate THEN meta'[x].bid = FALSE ELSE templateRows'[x].bid = meta'[x].bid
      BY DEF BidsFit
    <3>1. x # k /\ x \notin lost /\ ~Saving(x) BY <1>7, <2>5, <2>6
    <3> QED BY <3>1, <2>1, <1>1, <1>3 DEF BidsFit
  <2>8. lost' \subseteq Keys /\ templateFaults' \in Nat /\ due' \subseteq due
    BY <1>1, <1>3, <1>7
  <2>9. \A e \in templateCalls' : e \in templateCalls \/ CallFits(e)' BY <2>3, <2>4 DEF CallFits
  <2> QED BY <1>1, <2>1, <2>7, <2>8, <2>9, TemplateEnds
<1> QED BY <1>4, <1>6, <1>7 DEF CreatePosts, Filed

(* A write of one row that fits, or of one that is by the same author.     *)
LEMMA RowWritten ==
  ASSUME TemplatesInv, NEW k \in Keys, NEW row, templateRows' = [templateRows EXCEPT ![k] = row], UNCHANGED meta,
         RowFits(meta[k], row), templateRows[k] # NoTemplate => SameAuthor(templateRows[k], row)
  PROVE  RowsFit' /\ Grows /\ MetaFits' /\ templateRows'[k] = row /\ row # NoTemplate
         /\ \A x \in Keys : x # k => templateRows'[x] = templateRows[x]
<1>1. RowsFit /\ MetaFits BY DEF TemplatesInv
<1>2. templateRows'[k] = row /\ DOMAIN templateRows' = Keys /\ \A x \in Keys : x # k => templateRows'[x] = templateRows[x]
  BY <1>1 DEF RowsFit
<1>3. row # NoTemplate BY FitsIsRow
<1>4. RowsFit'
  <2> SUFFICES ASSUME NEW x \in Keys, templateRows'[x] # NoTemplate PROVE RowFits(meta[x], templateRows'[x]) BY <1>2 DEF RowsFit
  <2>1. CASE x = k BY <1>2, <2>1
  <2>2. CASE x # k BY <1>1, <1>2, <2>2 DEF RowsFit
  <2> QED BY <2>1, <2>2
<1>5. Grows
  <2> SUFFICES ASSUME NEW x \in Keys, templateRows[x] # NoTemplate
               PROVE  templateRows'[x] # NoTemplate /\ SameAuthor(templateRows[x], templateRows'[x])
    BY DEF Grows
  <2>1. CASE x = k BY <1>2, <1>3, <2>1
  <2>2. CASE x # k BY <1>2, <2>2, AuthorAlike
  <2> QED BY <2>1, <2>2
<1> QED BY <1>1, <1>2, <1>3, <1>4, <1>5 DEF MetaFits

LEMMA CreateSavesInv == ASSUME TemplatesInv, NEW c \in templateCalls, CreateSaves(c) PROVE TemplatesInv'
<1> DEFINE k == c.req.key
           row == c.seen
<1>1. c.req.kind = "create" /\ c.phase = "save" /\ templateCalls' = templateCalls \ {c} /\ UNCHANGED <<meta, due, templateFaults, sent>>
  BY DEF CreateSaves, CallEnds
<1>2. k \in Keys /\ RowFits(meta[k], row) /\ row.bid = meta[k].bid
  BY <1>1 DEF TemplatesInv, CallFits, CreateFits, SyncFits, BindFits
<1>3. MetaFits /\ RowsFit /\ BidsFit /\ lost \subseteq Keys /\ templateFaults \in Nat BY DEF TemplatesInv
<1>4. \A x \in Keys : x # k => (Saving(x) => Saving(x)')
  <2> SUFFICES ASSUME NEW x \in Keys, x # k, NEW d \in templateCalls, d.req.kind = "create", d.req.key = x, d.phase = "save"
               PROVE  Saving(x)'
    BY DEF Saving
  <2>1. d \in templateCalls' BY <1>1
  <2> QED BY <2>1 DEF Saving
<1> HIDE DEF row
<1>5. CASE templateRows[k] = NoTemplate
  <2>1. templateRows' = [templateRows EXCEPT ![k] = row] /\ UNCHANGED lost BY <1>5 DEF CreateSaves, row
  <2> HIDE DEF k
  <2>2. RowsFit' /\ Grows /\ MetaFits' /\ templateRows'[k] = row /\ row # NoTemplate
        /\ \A x \in Keys : x # k => templateRows'[x] = templateRows[x]
    BY <1>1, <1>2, <1>5, <2>1, RowWritten
  <2>3. BidsFit'
    <3> SUFFICES ASSUME NEW x \in Keys, meta'[x] # NoTemplate, x \notin lost', ~Saving(x)'
                 PROVE  IF templateRows'[x] = NoTemplate THEN meta'[x].bid = FALSE ELSE templateRows'[x].bid = meta'[x].bid
      BY DEF BidsFit
    <3>1. CASE x = k BY <3>1, <2>2, <1>1, <1>2
    <3>2. CASE x # k BY <3>2, <2>1, <2>2, <1>1, <1>3, <1>4 DEF BidsFit
    <3> QED BY <3>1, <3>2
  <2>4. lost' \subseteq Keys /\ templateFaults' \in Nat /\ due' \subseteq due /\ \A e \in templateCalls' : e \in templateCalls
    BY <1>1, <1>3, <2>1
  <2> QED BY <1>1, <2>2, <2>3, <2>4, TemplateEnds
<1>6. CASE templateRows[k] # NoTemplate
  <2>1. lost' = lost \cup {k} /\ UNCHANGED templateRows BY <1>6 DEF CreateSaves
  <2> HIDE DEF k
  <2>2. Grows BY <1>1, <2>1, QuietGrows
  <2>3. RowsFit' /\ MetaFits' BY <1>1, <1>3, <2>1, <2>2, RowsStand DEF MetaFits
  <2>4. BidsFit'
    <3> SUFFICES ASSUME NEW x \in Keys, meta'[x] # NoTemplate, x \notin lost', ~Saving(x)'
                 PROVE  IF templateRows'[x] = NoTemplate THEN meta'[x].bid = FALSE ELSE templateRows'[x].bid = meta'[x].bid
      BY DEF BidsFit
    <3>1. x # k /\ x \notin lost BY <2>1
    <3> QED BY <3>1, <2>1, <1>1, <1>3, <1>4 DEF BidsFit
  <2>5. lost' \subseteq Keys /\ templateFaults' \in Nat /\ due' \subseteq due /\ \A e \in templateCalls' : e \in templateCalls
    BY <1>1, <1>2, <1>3, <2>1
  <2> QED BY <1>1, <2>2, <2>3, <2>4, <2>5, TemplateEnds
<1> QED BY <1>5, <1>6

(* A step that moves neither rows nor what Meta has.                       *)
LEMMA QuietEnds ==
  ASSUME TemplatesInv, UNCHANGED <<meta, templateRows, lost, sent>>, due' \subseteq due, templateFaults' \in Nat,
         \A c \in templateCalls' : c \in templateCalls \/ CallFits(c)', \A k \in Keys : Saving(k) => Saving(k)'
  PROVE  TemplatesInv'
<1>1. Grows BY QuietGrows
<1>2. RowsFit' /\ MetaFits' BY <1>1, RowsStand DEF TemplatesInv, MetaFits
<1>3. BidsFit' BY BidsStand DEF TemplatesInv
<1>4. lost' \subseteq Keys BY DEF TemplatesInv
<1> QED BY <1>1, <1>2, <1>3, <1>4, TemplateEnds

LEMMA SyncListsInv == ASSUME TemplatesInv, NEW q \in due, SyncLists(q) PROVE TemplatesInv'
<1>1. q.kind = "sync" /\ UNCHANGED <<meta, templateRows, lost, sent>> /\ due' \subseteq due /\ templateFaults \in Nat
  BY DEF SyncLists, Leaves, TemplatesInv
<1>2. CASE templateFaults > 0 /\ templateFaults' = templateFaults - 1 /\ UNCHANGED templateCalls
  <2>1. templateFaults' \in Nat BY <1>1, <1>2
  <2>2. \A k \in Keys : Saving(k) => Saving(k)' BY <1>2, SavingGrows
  <2> QED BY <1>1, <1>2, <2>1, <2>2, QuietEnds
<1> PICK d : d = [req |-> q, phase |-> "list", seen |-> meta, todo |-> {k \in Keys : meta[k] # NoTemplate /\ ~Null(Category(meta[k].category))}]
  OBVIOUS
<1>3. CASE UNCHANGED templateFaults /\ templateCalls' = templateCalls \cup {d}
  <2>1. d.req = q /\ d.phase = "list" /\ \A k \in d.todo : k \in Keys /\ meta[k] # NoTemplate /\ d.seen[k] = meta[k]
    OBVIOUS
  <2>2. \A k \in d.todo : Listed(d, k)' BY <1>1, <2>1 DEF Listed
  <2>3. CallFits(d)' BY <1>1, <2>1, <2>2 DEF CallFits, SyncFits
  <2>4. \A e \in templateCalls' : e \in templateCalls \/ CallFits(e)' BY <1>3, <2>3
  <2>5. \A k \in Keys : Saving(k) => Saving(k)' BY <1>3, SavingGrows
  <2>6. templateFaults' \in Nat BY <1>1, <1>3
  <2> QED BY <1>1, <2>4, <2>5, <2>6, QuietEnds
<1> QED BY <1>2, <1>3 DEF SyncLists

LEMMA SyncCalls == ASSUME TemplatesInv, NEW c \in templateCalls, c.req.kind = "sync" PROVE SyncFits(c)
  BY DEF TemplatesInv, CallFits, CreateFits, BindFits

LEMMA SyncFindsInv == ASSUME TemplatesInv, NEW c \in templateCalls, SyncFinds(c) PROVE TemplatesInv'
<1>1. c.req.kind = "sync" /\ UNCHANGED <<meta, templateRows, due, templateFaults, lost, sent>> BY DEF SyncFinds
<1>2. SyncFits(c) /\ templateFaults' \in Nat BY <1>1, SyncCalls DEF TemplatesInv
<1>3. CASE CallEnds(c)
  <2>1. templateCalls' = templateCalls \ {c} BY <1>3 DEF CallEnds
  <2>2. \A k \in Keys : Saving(k) => Saving(k)' BY <1>1, <2>1, SavingStays
  <2>3. \A e \in templateCalls' : e \in templateCalls BY <2>1
  <2> QED BY <1>1, <1>2, <2>2, <2>3, QuietEnds
<1>4. ASSUME NEW k \in c.todo, NEW d, GoesOnAs(c, d),
             d = [req |-> c.req, phase |-> "save", seen |-> c.seen, todo |-> c.todo, at |-> k, row |-> templateRows[k]]
      PROVE  TemplatesInv'
  <2>1. templateCalls' = (templateCalls \ {c}) \cup {d} BY <1>4 DEF GoesOnAs
  <2>2. \A j \in Keys : Saving(j) => Saving(j)' BY <1>1, <2>1, SavingStays
  <2>3. d.req = c.req /\ d.phase = "save" /\ d.seen = c.seen /\ d.todo = c.todo /\ d.at = k /\ d.row = templateRows[k] BY <1>4
  <2>4. k \in Keys /\ \A j \in d.todo : Listed(d, j)' BY <1>1, <1>2, <2>3 DEF SyncFits, Listed
  <2>5. templateRows[k] # NoTemplate => RowRead(k, templateRows[k])'
    BY <1>1, <2>4, AuthorAlike DEF TemplatesInv, RowsFit, RowRead
  <2>6. CallFits(d)' BY <1>1, <1>2, <2>3, <2>4, <2>5 DEF CallFits, SyncFits
  <2>7. \A e \in templateCalls' : e \in templateCalls \/ CallFits(e)' BY <2>1, <2>6
  <2> QED BY <1>1, <1>2, <2>2, <2>7, QuietEnds
<1> QED BY <1>3, <1>4 DEF SyncFinds

(* A write of a row that a call read or found missing.                     *)
LEMMA SavedInv ==
  ASSUME TemplatesInv, NEW k \in Keys, NEW row, templateRows' = [templateRows EXCEPT ![k] = row], UNCHANGED <<meta, lost, sent>>,
         RowFits(meta[k], row), templateRows[k] # NoTemplate => SameAuthor(templateRows[k], row),
         templateRows[k] = NoTemplate => row.bid = FALSE,
         due' \subseteq due, templateFaults' \in Nat,
         Grows => \A c \in templateCalls' : c \in templateCalls \/ CallFits(c)', \A x \in Keys : Saving(x) => Saving(x)'
  PROVE  TemplatesInv'
<1>1. /\ RowsFit' /\ Grows /\ MetaFits' /\ templateRows'[k] = row /\ row # NoTemplate
      /\ \A x \in Keys : x # k => templateRows'[x] = templateRows[x]
  BY RowWritten
<1>2. BidsFit'
  <2> SUFFICES ASSUME NEW x \in Keys, meta[x] # NoTemplate, x \notin lost, ~Saving(x)
               PROVE  IF templateRows'[x] = NoTemplate THEN meta[x].bid = FALSE ELSE templateRows'[x].bid = meta[x].bid
    BY DEF BidsFit
  <2>1. IF templateRows[x] = NoTemplate THEN meta[x].bid = FALSE ELSE templateRows[x].bid = meta[x].bid
    BY DEF TemplatesInv, BidsFit
  <2>2. CASE x = k BY <1>1, <2>1, <2>2 DEF SameAuthor
  <2>3. CASE x # k BY <1>1, <2>1, <2>3
  <2> QED BY <2>2, <2>3
<1>3. lost' \subseteq Keys /\ \A c \in templateCalls' : c \in templateCalls \/ CallFits(c)' BY <1>1 DEF TemplatesInv
<1> QED BY <1>1, <1>2, <1>3, TemplateEnds

LEMMA SyncSavesInv == ASSUME TemplatesInv, NEW c \in templateCalls, SyncSaves(c) PROVE TemplatesInv'
<1>1. c.req.kind = "sync" /\ c.phase = "save" /\ UNCHANGED <<meta, due, templateFaults, lost, sent>> BY DEF SyncSaves
<1>2. SyncFits(c) /\ templateFaults' \in Nat BY <1>1, SyncCalls DEF TemplatesInv
<1>3. CASE c.row = NoTemplate /\ templateRows[c.at] # NoTemplate
  <2>1. templateCalls' = templateCalls \ {c} /\ UNCHANGED templateRows BY <1>3 DEF SyncSaves, CallEnds
  <2>2. \A k \in Keys : Saving(k) => Saving(k)' BY <1>1, <2>1, SavingStays
  <2>3. \A e \in templateCalls' : e \in templateCalls BY <2>1
  <2> QED BY <1>1, <1>2, <2>1, <2>2, <2>3, QuietEnds
<1>4. CASE ~(c.row = NoTemplate /\ templateRows[c.at] # NoTemplate)
  <2> PICK k : k = c.at OBVIOUS
  <2> PICK t : t = c.seen[k] OBVIOUS
  <2> PICK row : row = IF c.row = NoTemplate THEN Imported(t) ELSE Synced(c.row, t) OBVIOUS
  <2> PICK d : d = [req |-> c.req, phase |-> "list", seen |-> c.seen, todo |-> c.todo \ {k}] OBVIOUS
  <2>1. templateRows' = [templateRows EXCEPT ![k] = row] /\ templateCalls' = (templateCalls \ {c}) \cup {d}
    BY <1>4 DEF SyncSaves, GoesOnAs
  <2>2. k \in Keys /\ t # NoTemplate /\ meta[k] # NoTemplate /\ t.body = meta[k].body BY <1>1, <1>2 DEF SyncFits, Listed
  <2>3. /\ RowFits(meta[k], row) /\ (templateRows[k] # NoTemplate => SameAuthor(templateRows[k], row))
        /\ templateRows[k] = NoTemplate => row.bid = FALSE
    <3>1. CASE c.row = NoTemplate BY <3>1, <1>4, <2>2, ImportedFits
    <3>2. CASE c.row # NoTemplate
      <4>1. RowRead(k, c.row) BY <1>1, <1>2, <3>2 DEF SyncFits
      <4>2. RowFits(meta[k], c.row) /\ templateRows[k] # NoTemplate /\ SameAuthor(templateRows[k], c.row) BY <4>1 DEF RowRead
      <4>3. RowFits(meta[k], row) /\ SameAuthor(c.row, row) BY <2>2, <3>2, <4>2, SyncedFits
      <4> QED BY <4>2, <4>3, AuthorAlike
    <3> QED BY <3>1, <3>2
  <2>4. \A x \in Keys : Saving(x) => Saving(x)' BY <1>1, <2>1, SavingStays
  <2>5. CallFits(d)'
    <3>1. d.req = c.req /\ d.phase = "list" /\ d.seen = c.seen /\ d.todo = c.todo \ {k} OBVIOUS
    <3>2. \A j \in d.todo : Listed(d, j)' BY <1>1, <1>2, <3>1 DEF SyncFits, Listed
    <3> QED BY <1>1, <3>1, <3>2 DEF CallFits, SyncFits
  <2>6. \A e \in templateCalls' : e \in templateCalls \/ CallFits(e)' BY <2>1, <2>5
  <2> QED BY <1>1, <1>2, <2>1, <2>2, <2>3, <2>4, <2>6, SavedInv
<1> QED BY <1>3, <1>4

LEMMA BindReadsInv == ASSUME TemplatesInv, NEW q \in due, BindReads(q) PROVE TemplatesInv'
<1>1. q.kind = "bind" /\ q.key \in Keys /\ UNCHANGED <<meta, templateRows, templateFaults, lost, sent>> /\ due' \subseteq due
  BY DEF BindReads, Leaves, TemplatesInv, Awaited
<1>2. templateFaults' \in Nat BY <1>1 DEF TemplatesInv
<1>3. CASE UNCHANGED templateCalls
  <2>1. \A k \in Keys : Saving(k) => Saving(k)' BY <1>3, SavingGrows
  <2> QED BY <1>1, <1>2, <1>3, <2>1, QuietEnds
<1> PICK k : k = q.key OBVIOUS
<1> PICK row : row = Bound(templateRows[k], q.dto) OBVIOUS
<1> PICK d : d = [req |-> q, phase |-> "save", seen |-> row, todo |-> {}] OBVIOUS
<1>4. CASE templateRows[k] # NoTemplate /\ q.dto.name \in ToSet(NamesOf(templateRows[k])) /\ templateCalls' = templateCalls \cup {d}
  <2>1. \A x \in Keys : Saving(x) => Saving(x)' BY <1>4, SavingGrows
  <2>2. RowFits(meta[k], templateRows[k]) BY <1>1, <1>4 DEF TemplatesInv, RowsFit
  <2>3. RowFits(meta[k], row) /\ SameAuthor(templateRows[k], row) BY <1>4, <2>2, BoundFits
  <2>4. d.req = q /\ d.seen = row OBVIOUS
  <2>5. RowRead(k, row)' BY <1>1, <1>4, <2>3 DEF RowRead
  <2>6. CallFits(d)' BY <1>1, <2>4, <2>5 DEF CallFits, BindFits
  <2>7. \A e \in templateCalls' : e \in templateCalls \/ CallFits(e)' BY <1>4, <2>6
  <2> QED BY <1>1, <1>2, <2>1, <2>7, QuietEnds
<1> QED BY <1>3, <1>4 DEF BindReads

LEMMA BindSavesInv == ASSUME TemplatesInv, NEW c \in templateCalls, BindSaves(c) PROVE TemplatesInv'
<1> PICK k : k = c.req.key OBVIOUS
<1> PICK row : row = c.seen OBVIOUS
<1>1. /\ c.req.kind = "bind" /\ templateCalls' = templateCalls \ {c} /\ UNCHANGED <<meta, due, templateFaults, lost, sent>>
      /\ templateRows' = [templateRows EXCEPT ![k] = row]
  BY DEF BindSaves, CallEnds
<1>2. BindFits(c) /\ templateFaults' \in Nat BY <1>1 DEF TemplatesInv, CallFits, CreateFits, SyncFits
<1>3. k \in Keys /\ RowFits(meta[k], row) /\ templateRows[k] # NoTemplate /\ SameAuthor(templateRows[k], row)
  BY <1>2 DEF BindFits, RowRead
<1>4. \A x \in Keys : Saving(x) => Saving(x)' BY <1>1, SavingStays
<1>5. \A e \in templateCalls' : e \in templateCalls BY <1>1
<1> QED BY <1>1, <1>2, <1>3, <1>4, <1>5, SavedInv

LEMMA MetaReviewsInv == ASSUME TemplatesInv, NEW q \in due, MetaReviews(q) PROVE TemplatesInv'
<1> PICK k : k = q.key OBVIOUS
<1> PICK m : m = [meta[k] EXCEPT !.status = q.dto] OBVIOUS
<1>1. /\ q.kind = "review" /\ meta[k] # NoTemplate /\ due' \subseteq due /\ meta' = [meta EXCEPT ![k] = m]
      /\ UNCHANGED <<templateRows, templateCalls, templateFaults, lost, sent>>
  BY DEF MetaReviews, Leaves
<1>2. k \in Keys /\ MetaFits /\ RowsFit /\ BidsFit /\ lost \subseteq Keys /\ templateFaults \in Nat
  BY <1>1 DEF TemplatesInv, Awaited
<1>3. MetaFormed(meta[k]) BY <1>1, <1>2 DEF MetaFits
<1>4. MetaFormed(m) /\ m.body = meta[k].body /\ m.bid = meta[k].bid BY <1>3 DEF MetaFormed
<1>5. m # NoTemplate
  <2>1. DOMAIN m = {"status", "category", "body", "bid"} BY <1>4 DEF MetaFormed
  <2>2. DOMAIN NoTemplate = {"status"} BY DEF NoTemplate
  <2>3. {"status", "category", "body", "bid"} # {"status"} OBVIOUS
  <2> QED BY <2>1, <2>2, <2>3
<1>6. meta'[k] = m /\ DOMAIN meta' = Keys /\ \A x \in Keys : x # k => meta'[x] = meta[x] BY <1>1, <1>2 DEF MetaFits
<1>7. Grows
  <2> SUFFICES ASSUME NEW x \in Keys
               PROVE  /\ meta[x] # NoTemplate => meta'[x] # NoTemplate /\ meta'[x].body = meta[x].body /\ meta'[x].bid = meta[x].bid
                      /\ templateRows[x] # NoTemplate => templateRows'[x] # NoTemplate /\ SameAuthor(templateRows[x], templateRows'[x])
    BY DEF Grows
  <2>1. CASE x = k BY <2>1, <1>1, <1>4, <1>5, <1>6, AuthorAlike
  <2>2. CASE x # k BY <2>2, <1>1, <1>6, AuthorAlike
  <2> QED BY <2>1, <2>2
<1>8. MetaFits' BY <1>2, <1>4, <1>6 DEF MetaFits
<1>9. RowsFit' BY <1>1, <1>2, <1>7, RowsStand
<1>10. BidsFit'
  <2> SUFFICES ASSUME NEW x \in Keys, meta'[x] # NoTemplate, x \notin lost, ~Saving(x)
               PROVE  IF templateRows[x] = NoTemplate THEN meta'[x].bid = FALSE ELSE templateRows[x].bid = meta'[x].bid
    BY <1>1 DEF BidsFit, Saving
  <2>1. meta[x] # NoTemplate /\ meta'[x].bid = meta[x].bid
    <3>1. CASE x = k BY <3>1, <1>1, <1>4, <1>6
    <3>2. CASE x # k BY <3>2, <1>6
    <3> QED BY <3>1, <3>2
  <2> QED BY <2>1, <1>2 DEF BidsFit
<1>11. lost' \subseteq Keys /\ templateFaults' \in Nat /\ \A e \in templateCalls' : e \in templateCalls BY <1>1, <1>2
<1> QED BY <1>1, <1>7, <1>8, <1>9, <1>10, <1>11, TemplateEnds

(* A send, by path: its values fit the mapping, or there is none.          *)
LEMMA TicketFits ==
  ASSUME NEW m, NEW k, NEW t, NEW typed, TicketSends(k, t, typed), RowFits(m, templateRows[k])
  PROVE  /\ sent'.path = "ticket" /\ sent'.key = k /\ sent'.row = templateRows[k]
         /\ templateRows[k].mapping = <<>> => sent'.rendered = RenderPositional(templateRows[k].body, sent'.values)
         /\ templateRows[k].mapping # <<>> =>
              /\ ValuesFit(templateRows[k], sent'.values) /\ FallbackStands(templateRows[k], sent'.values)
              /\ sent'.rendered = RenderNamed(templateRows[k].body, NamesOf(templateRows[k]), sent'.values)
<1> PICK row : row = templateRows[k] OBVIOUS
<1> DEFINE filled == [j \in DOMAIN row.mapping |-> OrFallback(ResolvedForTicket(row.mapping[j].name, t), row.mapping[j])]
<1> PICK values : values = IF row.mapping = <<>> THEN Padded(row, typed) ELSE filled OBVIOUS
<1>1. Posts(k, "ticket", values, IF row.mapping = <<>> THEN RenderPositional(row.body, values)
                                 ELSE RenderNamed(row.body, NamesOf(row), values), <<>>, 0)
  BY DEF TicketSends, Filled
<1>2. /\ sent'.path = "ticket" /\ sent'.key = k /\ sent'.row = row /\ sent'.values = values
      /\ sent'.rendered = IF row.mapping = <<>> THEN RenderPositional(row.body, values) ELSE RenderNamed(row.body, NamesOf(row), values)
  BY <1>1 DEF Posts
<1>3. CASE row.mapping = <<>> BY <1>2, <1>3
<1>4. CASE row.mapping # <<>>
  <2>1. Mapped(m, row) BY <1>4 DEF RowFits
  <2>2. DOMAIN values = DOMAIN row.mapping /\ Listlike(values) BY <1>4 DEF Listlike
  <2>3. \A j \in DOMAIN row.mapping : FilledAt(row, values, j) BY <1>4, Resolves DEF FilledAt
  <2> HIDE DEF filled
  <2>4. ValuesFit(row, values) /\ FallbackStands(row, values) BY <2>1, <2>2, <2>3, FilledFits
  <2> QED BY <1>2, <1>4, <2>4
<1> QED BY <1>3, <1>4

LEMMA TestFits ==
  ASSUME NEW m, NEW k, NEW t, NEW typed, TestSends(k, t, typed), RowFits(m, templateRows[k])
  PROVE  /\ sent'.path = "test" /\ sent'.key = k /\ sent'.row = templateRows[k]
         /\ templateRows[k].mapping # <<>> =>
              ValuesFit(templateRows[k], sent'.values) /\ FallbackStands(templateRows[k], sent'.values)
<1> PICK row : row = templateRows[k] OBVIOUS
<1> DEFINE resolved(n) == IF n \in ToSet(typed) THEN n ELSE ResolvedForPhone(n, t)
           filled == [j \in DOMAIN row.mapping |-> OrFallback(resolved(row.mapping[j].name), row.mapping[j])]
<1> PICK values : values = IF row.mapping = <<>> THEN Padded(row, typed) ELSE filled OBVIOUS
<1>1. Posts(k, "test", values, <<>>, <<>>, 0) BY DEF TestSends, Filled
<1>2. sent'.path = "test" /\ sent'.key = k /\ sent'.row = row /\ sent'.values = values BY <1>1 DEF Posts
<1>3. CASE row.mapping = <<>> BY <1>2, <1>3
<1>4. CASE row.mapping # <<>>
  <2>1. Mapped(m, row) BY <1>4 DEF RowFits
  <2>2. DOMAIN values = DOMAIN row.mapping /\ Listlike(values) BY <1>4 DEF Listlike
  <2>3. \A j \in DOMAIN row.mapping : FilledAt(row, values, j) BY <1>4, Resolves DEF FilledAt
  <2> HIDE DEF filled
  <2>4. ValuesFit(row, values) /\ FallbackStands(row, values) BY <2>1, <2>2, <2>3, FilledFits
  <2> QED BY <1>2, <2>4
<1> QED BY <1>3, <1>4

LEMMA WebhookFits ==
  ASSUME NEW m, NEW k, NEW e, WebhookSends(k, e), RowFits(m, templateRows[k])
  PROVE  /\ sent'.path = "webhook" /\ sent'.key = k /\ sent'.row = templateRows[k]
         /\ templateRows[k].mapping # <<>> =>
              ValuesFit(templateRows[k], sent'.values) /\ FallbackStands(templateRows[k], sent'.values)
<1> PICK row : row = templateRows[k] OBVIOUS
<1> DEFINE resolved(n) == IF BoundNames(row, e) # {} \/ e.bound # {}
                            THEN IF n \in BoundNames(row, e) \cap e.resolves THEN n ELSE ""
                            ELSE IF n \in e.variables THEN n ELSE ""
           filled == [j \in DOMAIN row.mapping |-> OrFallback(resolved(row.mapping[j].name), row.mapping[j])]
<1> PICK values : values = OrBlank(filled) OBVIOUS
<1>1. WebhookValues(row, e) = values
  <2>1. CASE BoundNames(row, e) # {} \/ e.bound # {} BY <2>1 DEF WebhookValues, Filled
  <2>2. CASE ~(BoundNames(row, e) # {} \/ e.bound # {}) BY <2>2 DEF WebhookValues, Filled
  <2> QED BY <2>1, <2>2
<1>2. Posts(k, "webhook", values, <<>>, UrlParams(row, values), Replies(row)) BY <1>1 DEF WebhookSends
<1>3. sent'.path = "webhook" /\ sent'.key = k /\ sent'.row = row /\ sent'.values = values BY <1>2 DEF Posts
<1>4. CASE row.mapping = <<>> BY <1>3, <1>4
<1>5. CASE row.mapping # <<>>
  <2> PICK given : given = filled OBVIOUS
  <2>1. Mapped(m, row) BY <1>5 DEF RowFits
  <2>2. DOMAIN given = DOMAIN row.mapping /\ Listlike(given) BY DEF Listlike
  <2>3. \A j \in DOMAIN row.mapping : FilledAt(row, given, j)
    <3> TAKE j \in DOMAIN row.mapping
    <3>1. resolved(row.mapping[j].name) \in {row.mapping[j].name, ""} OBVIOUS
    <3>2. given[j] = OrFallback(resolved(row.mapping[j].name), row.mapping[j]) OBVIOUS
    <3> HIDE DEF resolved
    <3> QED BY <3>1, <3>2 DEF FilledAt
  <2>4. values = OrBlank(given) OBVIOUS
  <2> HIDE DEF filled
  <2>5. ValuesFit(row, given) /\ FallbackStands(row, given) BY <2>1, <2>2, <2>3, FilledFits
  <2>6. ValuesFit(row, values) /\ FallbackStands(row, values) BY <2>1, <2>4, <2>5, BlanksFit
  <2> QED BY <1>3, <2>6
<1> QED BY <1>4, <1>5

LEMMA BroadcastFits ==
  ASSUME NEW m, NEW k, NEW names, NEW known, BroadcastSends(k, names, known), RowFits(m, templateRows[k])
  PROVE  /\ sent'.path = "broadcast" /\ sent'.key = k /\ sent'.row = templateRows[k]
         /\ templateRows[k].mapping # <<>> => ValuesFit(templateRows[k], sent'.values)
<1> PICK row : row = templateRows[k] OBVIOUS
<1> PICK filled : filled = [i \in DOMAIN row.mapping |-> Told(row.mapping[i].name, known)] OBVIOUS
<1> PICK values : values = OrBlank(filled) OBVIOUS
<1>1. Posts(k, "broadcast", values, <<>>, <<>>, 0) BY DEF BroadcastSends
<1>2. sent'.path = "broadcast" /\ sent'.key = k /\ sent'.row = row /\ sent'.values = values BY <1>1 DEF Posts
<1>3. CASE row.mapping = <<>> BY <1>2, <1>3
<1>4. CASE row.mapping # <<>>
  <2>1. DOMAIN row.mapping = 1 .. row.count BY <1>4, MappedNames DEF RowFits
  <2>2. \A j \in 1 .. row.count : values[j] \in {row.mapping[j].name, ""} BY <2>1 DEF OrBlank, Told, Null
  <2>3. DOMAIN values = 1 .. row.count /\ Listlike(values) BY <2>1 DEF OrBlank, Listlike
  <2>4. ValuesFit(row, values) BY <2>2, <2>3 DEF ValuesFit, ValueFits
  <2> QED BY <1>2, <2>4
<1> QED BY <1>3, <1>4

LEMMA SendsTemplateInv == ASSUME TemplatesInv, NEW k \in Keys, SendsTemplate(k) PROVE TemplatesInv'
<1> PICK row : row = templateRows[k] OBVIOUS
<1> PICK m : m = meta[k] OBVIOUS
<1>1. row # NoTemplate /\ UNCHANGED <<meta, templateRows, templateCalls, due, templateFaults, lost>> BY DEF SendsTemplate
<1>2. RowFits(m, row) /\ m # NoTemplate BY <1>1 DEF TemplatesInv, RowsFit, RowFits
<1>3. /\ sent'.path \in {"ticket", "test", "webhook", "broadcast"} /\ sent'.key = k /\ sent'.row = row
      /\ sent'.path = "ticket" /\ row.mapping = <<>> => sent'.rendered = RenderPositional(row.body, sent'.values)
      /\ row.mapping # <<>> =>
           /\ ValuesFit(row, sent'.values) /\ (sent'.path # "broadcast" => FallbackStands(row, sent'.values))
           /\ sent'.path = "ticket" => sent'.rendered = RenderNamed(row.body, NamesOf(row), sent'.values)
  <2>1. ASSUME NEW t, NEW typed, TicketSends(k, t, typed) PROVE <1>3!: BY <2>1, <1>2, TicketFits
  <2>2. ASSUME NEW t, NEW typed, TestSends(k, t, typed) PROVE <1>3!: BY <2>2, <1>2, TestFits
  <2>3. ASSUME NEW e, WebhookSends(k, e) PROVE <1>3!: BY <2>3, <1>2, WebhookFits
  <2>4. ASSUME NEW known, BroadcastSends(k, SegmentSafe, known) PROVE <1>3!: BY <2>4, <1>2, BroadcastFits
  <2> QED BY <2>1, <2>2, <2>3, <2>4 DEF SendsTemplate
<1>4. (row.mapping = <<>> => row.body = m.body) /\ (row.mapping # <<>> => Mapped(m, row)) BY <1>2 DEF RowFits
<1>5. RenderedAsSent'
  <2> SUFFICES ASSUME sent'.path = "ticket" PROVE sent'.rendered = RenderPositional(m.body, sent'.values)
    BY <1>1, <1>3 DEF RenderedAsSent
  <2>1. CASE row.mapping = <<>> BY <2>1, <1>3, <1>4
  <2>2. CASE row.mapping # <<>> BY <2>2, <1>3, <1>4, RendersAlike
  <2> QED BY <2>1, <2>2
<1>6. InItsPlace'
  <2> PICK values : values = sent'.values OBVIOUS
  <2>1. row.mapping # <<>> => \A i \in DOMAIN row.body : InPlace(m, row, values, i) BY <1>3, <1>4, PlacedValue
  <2>2. meta'[sent'.key] = m /\ sent'.row = row /\ sent'.values = values BY <1>1, <1>3
  <2> QED BY <2>1, <2>2 DEF InItsPlace, InPlace
<1>7. FallbackUsed'
  <2> SUFFICES ASSUME sent'.path # "broadcast", NEW i \in DOMAIN row.mapping, sent'.values[i] = ""
               PROVE  row.mapping[i].fallback \in {"", "null"}
    BY <1>3 DEF FallbackUsed, FallbackUsedOn
  <2>1. row.mapping # <<>> BY NoPlaces
  <2>2. i \in 1 .. row.count BY <1>4, <2>1, MappedNames
  <2> QED BY <2>1, <2>2, <1>3 DEF FallbackStands
<1>8. SentFits' BY <1>1, <1>2, <1>3, <1>5, <1>6, <1>7 DEF SentFits
<1> QED BY <1>1, <1>8 DEF TemplatesInv, MetaFits, RowsFit, BidsFit, Saving, CallFits, CreateFits, SyncFits, BindFits, Listed, RowRead, Awaited

LEMMA TemplatesStart == ASSUME NEW c \in TemplateCases, TemplatesInit(c) PROVE TemplatesInv
<1>1. /\ meta = c.registered /\ due = c.coming /\ templateFaults = c.breaks /\ lost = {} /\ sent = NoSend
      /\ templateRows = [k \in Keys |-> NoTemplate] /\ templateCalls = {}
  BY DEF TemplatesInit
<1>2. TemplateCaseOK(c) BY TemplatesAssumption
<1>3. MetaFits
  <2>1. meta \in [Keys -> {NoTemplate} \cup [status: STRING, category: STRING, body: Seq(STRING), bid: {FALSE}]]
    BY <1>1, <1>2 DEF TemplateCaseOK
  <2>2. \A k \in Keys : meta[k] # NoTemplate => meta[k] \in [status: STRING, category: STRING, body: Seq(STRING), bid: {FALSE}]
    BY <2>1
  <2> QED BY <2>1, <2>2 DEF MetaFits, MetaFormed
<1>4. RowsFit /\ \A k \in Keys : templateRows[k] = NoTemplate BY <1>1 DEF RowsFit
<1>5. BidsFit
  <2>1. \A k \in Keys : meta[k] # NoTemplate => meta[k].bid = FALSE BY <1>1, <1>2 DEF TemplateCaseOK
  <2> QED BY <2>1, <1>4 DEF BidsFit
<1>6. SentFits BY <1>1 DEF SentFits, NoSend
<1>7. \A q \in due : Awaited(q) BY <1>1, <1>2 DEF TemplateCaseOK, Awaited
<1>8. templateFaults \in Nat BY <1>1, <1>2 DEF TemplateCaseOK
<1> QED BY <1>1, <1>3, <1>4, <1>5, <1>6, <1>7, <1>8 DEF TemplatesInv

LEMMA TemplateStep == ASSUME TemplatesInv, [TemplatesNext]_templateVars PROVE TemplatesInv'
<1>1. CASE UNCHANGED templateVars
  <2>1. UNCHANGED <<meta, templateRows, templateCalls, due, templateFaults, lost, sent>> BY <1>1 DEF templateVars
  <2>2. \A k \in Keys : Saving(k) => Saving(k)' BY <2>1, SavingGrows
  <2>3. templateFaults' \in Nat /\ due' \subseteq due /\ \A c \in templateCalls' : c \in templateCalls
    BY <2>1 DEF TemplatesInv
  <2> QED BY <2>1, <2>2, <2>3, QuietEnds
<1>2. ASSUME NEW q \in due, Comes(q) PROVE TemplatesInv'
  BY <1>2, CreateLooksInv, SyncListsInv, BindReadsInv, MetaReviewsInv DEF Comes
<1>3. ASSUME NEW c \in templateCalls, CallSteps(c) PROVE TemplatesInv'
  BY <1>3, CreatePostsInv, CreateSavesInv, SyncFindsInv, SyncSavesInv, BindSavesInv DEF CallSteps
<1>4. ASSUME NEW k \in Keys, SendsTemplate(k) PROVE TemplatesInv'
  BY <1>4, SendsTemplateInv
<1> QED BY <1>1, <1>2, <1>3, <1>4 DEF TemplatesNext

LEMMA RowKeeps ==
  ASSUME TemplatesInv, NEW k \in Keys, RowFits(meta[k], templateRows[k])
  PROVE  templateRows[k].count = IF templateRows[k].mapping = <<>> THEN CountVariables(templateRows[k].body) ELSE Len(templateRows[k].mapping)
<1> PICK row : row = templateRows[k] OBVIOUS
<1>1. CASE row.mapping = <<>> BY <1>1 DEF RowFits
<1>2. CASE row.mapping # <<>>
  <2>1. Mapped(meta[k], row) BY <1>2 DEF RowFits
  <2>2. Len(row.mapping) = row.count BY <2>1, MappedNames
  <2> QED BY <1>2, <2>2
<1> QED BY <1>1, <1>2

LEMMA TemplatesAreSound == ASSUME TemplatesInv PROVE TemplatesSound
<1>1. \A k \in Keys : templateRows[k] # NoTemplate => RowFits(meta[k], templateRows[k]) BY DEF TemplatesInv, RowsFit
<1>2. TemplatesTypeOK
  <2>1. \A k \in Keys : templateRows[k] # NoTemplate => templateRows[k].status \in TemplateStatuses /\ meta[k] # NoTemplate
    BY <1>1 DEF RowFits
  <2>2. \A k \in Keys : templateRows[k] # NoTemplate =>
          templateRows[k].count = IF templateRows[k].mapping = <<>> THEN CountVariables(templateRows[k].body) ELSE Len(templateRows[k].mapping)
    BY <1>1, RowKeeps
  <2>3. lost \subseteq Keys /\ templateFaults \in Nat BY DEF TemplatesInv
  <2> QED BY <2>1, <2>2, <2>3 DEF TemplatesTypeOK, TemplateStatuses
<1>3. BidKept
  <2> SUFFICES ASSUME NEW k \in Keys, templateRows[k] # NoTemplate, k \notin lost, ~Creating(k)
               PROVE  templateRows[k].bid = meta[k].bid
    BY DEF BidKept
  <2>1. ~Saving(k) BY DEF Saving, Creating
  <2>2. meta[k] # NoTemplate BY <1>1 DEF RowFits
  <2> QED BY <2>1, <2>2 DEF TemplatesInv, BidsFit
<1>4. RenderedAsSent /\ InItsPlace /\ FallbackUsed
  <2>1. CASE sent.path = "none" BY <2>1 DEF RenderedAsSent, InItsPlace, FallbackUsed, FallbackUsedOn
  <2>2. CASE sent.path # "none" BY <2>2 DEF TemplatesInv, SentFits
  <2> QED BY <2>1, <2>2
<1> QED BY <1>2, <1>3, <1>4 DEF TemplatesSound

LEMMA TemplatesHold == TemplatesSpec => []TemplatesSound
<1>1. (\E c \in TemplateCases : TemplatesInit(c)) => TemplatesInv BY TemplatesStart
<1>2. TemplatesInv /\ [TemplatesNext]_templateVars => TemplatesInv' BY TemplateStep
<1>3. TemplatesInv => TemplatesSound BY TemplatesAreSound
<1> QED BY <1>1, <1>2, <1>3, PTL DEF TemplatesSpec

AuthorsStay ==
  \A k \in Keys : templateRows[k] # NoTemplate /\ templateRows[k].mapping # <<>> =>
    templateRows'[k].body = templateRows[k].body /\ NamesOf(templateRows'[k]) = NamesOf(templateRows[k])

(* Who writes over a row read it by the same author, who writes a new one  *)
(* found none.                                                             *)
LEMMA RowStays == ASSUME TemplatesInv, TemplatesNext PROVE AuthorsStay
<1>1. ASSUME UNCHANGED templateRows PROVE AuthorsStay BY <1>1 DEF AuthorsStay
<1>2. ASSUME NEW k \in Keys, NEW row, templateRows' = [templateRows EXCEPT ![k] = row], UNCHANGED meta,
             RowFits(meta[k], row), templateRows[k] # NoTemplate => SameAuthor(templateRows[k], row)
      PROVE  AuthorsStay
  <2>1. Grows BY <1>2, RowWritten
  <2> QED BY <2>1 DEF Grows, SameAuthor, AuthorsStay
<1>3. ASSUME NEW q \in due, Comes(q) PROVE AuthorsStay
  BY <1>1, <1>3 DEF Comes, CreateLooks, SyncLists, BindReads, MetaReviews
<1>4. ASSUME NEW k \in Keys, SendsTemplate(k) PROVE AuthorsStay BY <1>1, <1>4 DEF SendsTemplate
<1>5. ASSUME NEW c \in templateCalls, CallSteps(c) PROVE AuthorsStay
  <2>1. CASE CreatePosts(c) \/ SyncFinds(c) BY <1>1, <2>1 DEF CreatePosts, SyncFinds
  <2>2. CASE CreateSaves(c)
    <3> PICK k : k = c.req.key OBVIOUS
    <3> PICK row : row = c.seen OBVIOUS
    <3>1. c.req.kind = "create" /\ c.phase = "save" /\ UNCHANGED meta BY <2>2 DEF CreateSaves
    <3>2. k \in Keys /\ RowFits(meta[k], row) BY <3>1 DEF TemplatesInv, CallFits, CreateFits, SyncFits, BindFits
    <3>3. CASE templateRows[k] = NoTemplate /\ templateRows' = [templateRows EXCEPT ![k] = row] BY <3>1, <3>2, <3>3, <1>2
    <3>4. CASE UNCHANGED templateRows BY <3>4, <1>1
    <3> QED BY <2>2, <3>3, <3>4 DEF CreateSaves
  <2>3. CASE SyncSaves(c)
    <3> PICK k : k = c.at OBVIOUS
    <3> PICK t : t = c.seen[k] OBVIOUS
    <3> PICK row : row = IF c.row = NoTemplate THEN Imported(t) ELSE Synced(c.row, t) OBVIOUS
    <3>1. c.req.kind = "sync" /\ c.phase = "save" /\ UNCHANGED meta BY <2>3 DEF SyncSaves
    <3>2. SyncFits(c) BY <3>1, SyncCalls
    <3>3. k \in Keys /\ t # NoTemplate /\ meta[k] # NoTemplate /\ t.body = meta[k].body BY <3>1, <3>2 DEF SyncFits, Listed
    <3>4. CASE UNCHANGED templateRows BY <3>4, <1>1
    <3>5. CASE ~(c.row = NoTemplate /\ templateRows[k] # NoTemplate) /\ templateRows' = [templateRows EXCEPT ![k] = row]
      <4>1. RowFits(meta[k], row) /\ (templateRows[k] # NoTemplate => SameAuthor(templateRows[k], row))
        <5>1. CASE c.row = NoTemplate BY <5>1, <3>3, <3>5, ImportedFits
        <5>2. CASE c.row # NoTemplate
          <6>1. RowRead(k, c.row) BY <3>1, <3>2, <5>2 DEF SyncFits
          <6>2. RowFits(meta[k], c.row) /\ SameAuthor(templateRows[k], c.row) BY <6>1 DEF RowRead
          <6>3. RowFits(meta[k], row) /\ SameAuthor(c.row, row) BY <3>3, <5>2, <6>2, SyncedFits
          <6> QED BY <6>2, <6>3, AuthorAlike
        <5> QED BY <5>1, <5>2
      <4> QED BY <4>1, <3>1, <3>3, <3>5, <1>2
    <3> QED BY <2>3, <3>4, <3>5 DEF SyncSaves
  <2>4. CASE BindSaves(c)
    <3> PICK k : k = c.req.key OBVIOUS
    <3> PICK row : row = c.seen OBVIOUS
    <3>1. c.req.kind = "bind" /\ UNCHANGED meta /\ templateRows' = [templateRows EXCEPT ![k] = row] BY <2>4 DEF BindSaves
    <3>2. BindFits(c) BY <3>1 DEF TemplatesInv, CallFits, CreateFits, SyncFits
    <3>3. k \in Keys /\ RowFits(meta[k], row) /\ SameAuthor(templateRows[k], row) BY <3>2 DEF BindFits, RowRead
    <3> QED BY <3>1, <3>3, <1>2
  <2> QED BY <1>5, <2>1, <2>2, <2>3, <2>4 DEF CallSteps
<1> QED BY <1>3, <1>4, <1>5 DEF TemplatesNext

(* "Don't clobber a locally-authored template's named body + mapping": no  *)
(* interleaving of creates, syncs and edits changes the text or the names  *)
(* of a row written here (WhatsappTemplatesService, sync, updateBindings). *)
THEOREM AuthoredText == TemplatesSpec => AuthoredStays
<1>1. (\E c \in TemplateCases : TemplatesInit(c)) => TemplatesInv BY TemplatesStart
<1>2. TemplatesInv /\ [TemplatesNext]_templateVars => TemplatesInv' BY TemplateStep
<1>3. TemplatesInv /\ [TemplatesNext]_templateVars =>
        [\A k \in Keys : templateRows[k] # NoTemplate /\ templateRows[k].mapping # <<>> =>
           templateRows'[k].body = templateRows[k].body /\ NamesOf(templateRows'[k]) = NamesOf(templateRows[k])]_templateVars
  BY RowStays DEF AuthorsStay
<1> QED BY <1>1, <1>2, <1>3, PTL DEF TemplatesSpec, AuthoredStays

(***************************************************************************)
(* Mail templates. Every message has an id of its own, and a call's is on  *)
(* no mail before it has posted.                                           *)
(***************************************************************************)
Letters == [id: STRING, inbound: BOOLEAN]

MailRowOK(row) ==
  /\ row = [kind |-> row.kind, subject |-> row.subject, body |-> row.body, mapping |-> row.mapping]
  /\ row.kind \in {"REPLY", "OUTREACH"} /\ LeftOpen(row) = {}
  /\ \A i \in DOMAIN row.mapping : row.mapping[i].name \in DOMAIN Nullable /\ row.mapping[i].fallback # ""

Threaded(kind, anchor, refs) == IF kind = "REPLY" THEN anchor \in ToSet(refs) ELSE anchor = "null" /\ refs = <<>>
MailSendFits(c) ==
  /\ c.phase \in {"anchor", "gather", "post", "keep"} /\ c.req.key \in DOMAIN mailRows
  /\ c.phase \in {"anchor", "gather"} => c.refs = <<>>
  /\ c.phase = "anchor" => c.anchor = "null"
  /\ c.phase = "gather" => IF mailRows[c.req.key].kind = "REPLY" THEN IsLetter(c.anchor) ELSE c.anchor = "null"
  /\ c.phase = "post" => Threaded(mailRows[c.req.key].kind, c.anchor, c.refs)
MailCallFits(c) ==
  /\ c = [req |-> c.req, phase |-> c.phase, anchor |-> c.anchor, refs |-> c.refs] /\ c.req.id \in STRING
  /\ (c.phase = "save" /\ MailDtoOK(c.req.dto) /\ MailAcceptable(c.req.dto)) \/ MailSendFits(c)

(* What is still to come is on nothing yet.                                *)
IdUsed(id) ==
  IsLetter(id) \/ (\E c \in mailCalls : c.req.id = id) \/ (\E m \in mailed : m.id = id)
MailAwaits(q) ==
  /\ q.id \in STRING /\ ~IdUsed(q.id)
  /\ q.op = "create" => MailDtoOK(q.dto)
  /\ q.op = "letter" => q.inbound \in BOOLEAN
MailOK(m) ==
  /\ m.id \in STRING /\ Threaded(m.kind, m.anchor, m.refs)
  /\ m.open = {} /\ ToSet(m.values) \cap {"", "null"} = {}

MailIdsApart ==
  /\ \A p, q \in mailDue : p.id = q.id => p = q
  /\ \A c, d \in mailCalls : c.req.id = d.req.id => c = d
  /\ \A c \in mailCalls, m \in mailed : m.id = c.req.id => c.phase = "keep"

LettersOnce == \A i, j \in DOMAIN letters : letters[i].id = letters[j].id => i = j
MailKept(m) ==
  m.kind # "TEST" /\ (\A c \in mailCalls : c.req.id # m.id) => m.id \in rowsLost \/ IsLetter(m.id)

MailsInv ==
  /\ letters \in Seq(Letters) /\ LettersOnce
  /\ \A k \in DOMAIN mailRows : MailRowOK(mailRows[k])
  /\ \A c \in mailCalls : MailCallFits(c)
  /\ \A q \in mailDue : MailAwaits(q)
  /\ \A m \in mailed : MailOK(m) /\ MailKept(m)
  /\ \A id \in repliedLog : IsLetter(id)
  /\ MailIdsApart
----------------------------------------------------------------------------
(* A row that create accepts names every variable of its text, and has a   *)
(* fallback for each that may be missing.                                  *)
LEMMA AcceptedRow ==
  ASSUME NEW dto, MailDtoOK(dto), MailAcceptable(dto), NEW row, row = MailRow(dto)
  PROVE  MailRowOK(row)
<1> PICK text : text = SubjectOf(dto) \o dto.body OBVIOUS
<1> PICK names : names = MailRefs(dto) OBVIOUS
<1>1. SubjectOf(dto) \in Seq(STRING) /\ dto.body \in Seq(STRING) /\ text \in Seq(STRING)
  <2>1. SubjectOf(dto) \in Seq(STRING) /\ dto.body \in Seq(STRING) BY EmptySeq DEF MailDtoOK, SubjectOf
  <2> QED BY <2>1, ConcatProperties
<1>2. text \in Seq(Words) BY <1>1, TextIsWords
<1>3. ToSet(names) = ToSet(text) \ {""} BY <1>2, RefsNamed DEF MailRefs
<1>4. "" \notin ToSet(text)
  <2> PICK one, two : one = SubjectOf(dto) /\ two = dto.body OBVIOUS
  <2>1. "" \notin ToSet(one) /\ "" \notin ToSet(two)
    <3>1. one = dto.subject \/ one = <<>> BY DEF SubjectOf
    <3>2. ToSet(<<>>) = {} BY DEF ToSet
    <3> QED BY <3>1, <3>2 DEF MailDtoOK
  <2>2. /\ one \in Seq(STRING) /\ two \in Seq(STRING) /\ text = one \o two
        /\ Len(one) \in Nat /\ Len(two) \in Nat /\ DOMAIN one = 1 .. Len(one) /\ DOMAIN two = 1 .. Len(two)
        /\ DOMAIN text = 1 .. Len(text)
    BY <1>1, LenProperties
  <2>3. Len(text) = Len(one) + Len(two) /\ \A i \in 1 .. Len(one) + Len(two) : text[i] = IF i <= Len(one) THEN one[i] ELSE two[i - Len(one)]
    BY <2>2, ConcatProperties
  <2>4. \A i \in DOMAIN text : text[i] # ""
    <3> TAKE i \in DOMAIN text
    <3>1. CASE i <= Len(one)
      <4>1. i \in DOMAIN one /\ text[i] = one[i] BY <2>2, <2>3, <3>1
      <4> QED BY <4>1, <2>1 DEF ToSet
    <3>2. CASE ~(i <= Len(one))
      <4>1. i - Len(one) \in DOMAIN two /\ text[i] = two[i - Len(one)] BY <2>2, <2>3, <3>2
      <4> QED BY <4>1, <2>1 DEF ToSet
    <3> QED BY <3>1, <3>2
  <2> QED BY <2>4 DEF ToSet
<1>5. \A i \in DOMAIN names : /\ names[i] \in DOMAIN Nullable
                              /\ MayMissInMail(names[i]) => FallbackOf(dto, names[i]) \notin {"", "null"}
  BY DEF MailAcceptable, ToSet
<1>6. /\ row.kind = dto.kind /\ row.subject = SubjectOf(dto) /\ row.body = dto.body
      /\ row = [kind |-> row.kind, subject |-> row.subject, body |-> row.body, mapping |-> row.mapping]
      /\ row.mapping = [i \in DOMAIN names |->
           [name |-> names[i], fallback |-> IF MayMissInMail(names[i]) THEN FallbackOf(dto, names[i]) ELSE "null"]]
  BY DEF MailRow
<1>7. \A i \in DOMAIN row.mapping : row.mapping[i].name \in DOMAIN Nullable /\ row.mapping[i].fallback # ""
  <2> TAKE i \in DOMAIN row.mapping
  <2> PICK n : n = names[i] OBVIOUS
  <2>1. i \in DOMAIN names BY <1>6
  <2> PICK f : f = IF MayMissInMail(n) THEN FallbackOf(dto, n) ELSE "null" OBVIOUS
  <2>2. row.mapping[i] = [name |-> n, fallback |-> f] BY <1>6, <2>1
  <2>3. n \in DOMAIN Nullable /\ (MayMissInMail(n) => FallbackOf(dto, n) \notin {"", "null"}) BY <1>5, <2>1
  <2>4. f # ""
    <3>1. CASE MayMissInMail(n) BY <3>1, <2>3
    <3>2. CASE ~MayMissInMail(n) BY <3>2
    <3> QED BY <3>1, <3>2
  <2>5. row.mapping[i].name = n /\ row.mapping[i].fallback = f BY <2>2
  <2> QED BY <2>3, <2>4, <2>5
<1>8. LeftOpen(row) = {}
  <2>1. {row.mapping[i].name : i \in DOMAIN row.mapping} = ToSet(names) BY <1>6 DEF ToSet
  <2>2. ToSet(text) = ToSet(names) BY <1>3, <1>4
  <2> QED BY <2>1, <2>2, <1>6 DEF LeftOpen
<1> QED BY <1>6, <1>7, <1>8 DEF MailRowOK, MailDtoOK

LEMMA NamesAreWords == "" \notin DOMAIN Nullable BY DEF Nullable

(* The value of a variable is a name or a fallback.                        *)
LEMMA MailFills ==
  ASSUME NEW row, MailRowOK(row), NEW over, NEW resolved, NEW values, values = MailValues(row, over, resolved),
         \A n \in DOMAIN Nullable : resolved[n] \in {n, ""}, "null" \notin ToSet(values)
  PROVE  ToSet(values) \cap {"", "null"} = {}
<1>1. \A i \in DOMAIN values : values[i] # ""
  <2> TAKE i \in DOMAIN values
  <2> PICK n : n = row.mapping[i].name OBVIOUS
  <2>1. i \in DOMAIN row.mapping /\ values[i] = IF n \in over THEN n ELSE IF resolved[n] # "" THEN resolved[n] ELSE row.mapping[i].fallback
    BY DEF MailValues
  <2>2. n \in DOMAIN Nullable /\ row.mapping[i].fallback # "" BY <2>1 DEF MailRowOK
  <2> QED BY <2>1, <2>2, NamesAreWords
<1> QED BY <1>1 DEF ToSet

LEMMA MailResolves ==
  /\ \A n \in DOMAIN Nullable : ForTicket[n] \in {n, ""}
  /\ \A n \in DOMAIN Nullable : ForAddress[n] \in {n, ""}
  BY DEF ForTicket, ForAddress, ResolvedForTicket, ResolvedForEmail
----------------------------------------------------------------------------
LEMMA LetterAdds ==
  ASSUME letters \in Seq(Letters), LettersOnce, NEW id \in STRING, ~IsLetter(id), NEW inbound \in BOOLEAN,
         letters' = Append(letters, [id |-> id, inbound |-> inbound])
  PROVE  letters' \in Seq(Letters) /\ LettersOnce' /\ \A x : IsLetter(x)' <=> IsLetter(x) \/ x = id
<1> PICK e : e = [id |-> id, inbound |-> inbound] OBVIOUS
<1> PICK n : n = Len(letters) OBVIOUS
<1> PICK old : old = letters OBVIOUS
<1> PICK new : new = letters' OBVIOUS
<1>1. e \in Letters /\ e.id = id BY DEF Letters
<1>2. n \in Nat /\ DOMAIN old = 1 .. n BY LenProperties
<1>3. new \in Seq(Letters) /\ Len(new) = n + 1 /\ (\A i \in 1 .. n : new[i] = old[i]) /\ new[n + 1] = e
  BY <1>1, AppendProperties
<1>4. DOMAIN new = 1 .. n + 1 BY <1>3, LenProperties
<1>5. \A i \in DOMAIN new : (i \in DOMAIN old /\ new[i].id = old[i].id) \/ (i = n + 1 /\ new[i].id = id)
  BY <1>1, <1>2, <1>3, <1>4
<1>6. \A i \in DOMAIN old : i \in DOMAIN new /\ new[i].id = old[i].id BY <1>2, <1>3, <1>4
<1>7. n + 1 \in DOMAIN new /\ new[n + 1].id = id BY <1>1, <1>2, <1>3, <1>4
<1>8. \A i \in DOMAIN old : old[i].id # id BY DEF IsLetter
<1>9. LettersOnce' BY <1>5, <1>8 DEF LettersOnce
<1>10. \A x : IsLetter(x)' <=> IsLetter(x) \/ x = id BY <1>5, <1>6, <1>7 DEF IsLetter
<1> QED BY <1>3, <1>9, <1>10

LEMMA MailCallStands ==
  ASSUME NEW c, MailCallFits(c), \A k \in DOMAIN mailRows : k \in DOMAIN mailRows' /\ mailRows'[k] = mailRows[k],
         \A id : IsLetter(id) => IsLetter(id)'
  PROVE  MailCallFits(c)'
<1>1. CASE MailSendFits(c)
  <2>1. mailRows'[c.req.key] = mailRows[c.req.key] /\ c.req.key \in DOMAIN mailRows' BY <1>1 DEF MailSendFits
  <2>2. MailSendFits(c)' BY <1>1, <2>1 DEF MailSendFits
  <2> QED BY <2>2 DEF MailCallFits
<1>2. CASE ~MailSendFits(c) BY <1>2 DEF MailCallFits
<1> QED BY <1>1, <1>2

(* The end of every step: what it writes is fit, what it uses was used or  *)
(* has just come, and it leaves the rest.                                  *)
LEMMA MailStepEnds ==
  ASSUME MailsInv,
         \A k \in DOMAIN mailRows : k \in DOMAIN mailRows' /\ mailRows'[k] = mailRows[k],
         \A k \in DOMAIN mailRows' : k \in DOMAIN mailRows \/ MailRowOK(mailRows'[k]),
         letters' \in Seq(Letters), LettersOnce', \A id : IsLetter(id) => IsLetter(id)',
         \A c \in mailCalls' : c \in mailCalls \/ MailCallFits(c)',
         \A m \in mailed' : (m \in mailed \/ MailOK(m)) /\ MailKept(m)',
         mailDue' \subseteq mailDue,
         \A id : IdUsed(id)' => IdUsed(id) \/ \E p \in mailDue : p \notin mailDue' /\ p.id = id,
         MailIdsApart', \A id \in repliedLog' : id \in repliedLog \/ IsLetter(id)'
  PROVE  MailsInv'
<1>1. \A k \in DOMAIN mailRows' : MailRowOK(mailRows'[k]) BY DEF MailsInv
<1>2. \A c \in mailCalls' : MailCallFits(c)'
  <2> TAKE c \in mailCalls'
  <2>1. CASE c \in mailCalls
    <3>1. MailCallFits(c) BY <2>1 DEF MailsInv
    <3> QED BY <3>1, MailCallStands
  <2>2. CASE MailCallFits(c)' BY <2>2
  <2> QED BY <2>1, <2>2
<1>3. \A q \in mailDue' : MailAwaits(q)'
  <2> TAKE q \in mailDue'
  <2>1. MailAwaits(q) BY DEF MailsInv
  <2>2. ~IdUsed(q.id)'
    <3> SUFFICES ASSUME IdUsed(q.id)' PROVE FALSE OBVIOUS
    <3>1. ~IdUsed(q.id) BY <2>1 DEF MailAwaits
    <3>2. PICK p \in mailDue : p \notin mailDue' /\ p.id = q.id BY <3>1
    <3> QED BY <3>2 DEF MailsInv, MailIdsApart
  <2> QED BY <2>1, <2>2 DEF MailAwaits
<1>4. \A m \in mailed' : MailOK(m) /\ MailKept(m)' BY DEF MailsInv
<1>5. \A id \in repliedLog' : IsLetter(id)' BY DEF MailsInv
<1> QED BY <1>1, <1>2, <1>3, <1>4, <1>5 DEF MailsInv
----------------------------------------------------------------------------
(* What a request's coming brings about, and what it leaves alone.         *)
LEMMA MailComes ==
  ASSUME MailsInv, NEW q \in mailDue, NEW phase, MailArrives(q, phase, "null"),
         NEW d, d = [req |-> q, phase |-> phase, anchor |-> "null", refs |-> <<>>]
  PROVE  /\ mailDue' \subseteq mailDue /\ q \notin mailDue'
         /\ mailCalls' = IF phase = "refused" THEN mailCalls ELSE mailCalls \cup {d}
         /\ ~IdUsed(q.id) /\ q.id \in STRING
  BY DEF MailArrives, MailsInv, MailAwaits

(* A request that is let through, and nothing else.                        *)
LEMMA MailBegins ==
  ASSUME MailsInv, NEW q \in mailDue, NEW phase, MailArrives(q, phase, "null"),
         UNCHANGED <<mailRows, letters, mailed, repliedLog, rowsLost>>,
         NEW d, d = [req |-> q, phase |-> phase, anchor |-> "null", refs |-> <<>>],
         phase # "refused" => MailCallFits(d)
  PROVE  MailsInv'
<1>1. /\ mailDue' \subseteq mailDue /\ q \notin mailDue'
      /\ mailCalls' = IF phase = "refused" THEN mailCalls ELSE mailCalls \cup {d}
      /\ ~IdUsed(q.id) /\ d.req = q
  BY MailComes
<1>2. phase # "refused" => MailCallFits(d)'
  BY DEF MailCallFits, MailSendFits, IsLetter
<1>3. \A c \in mailCalls' : c \in mailCalls \/ MailCallFits(c)' BY <1>1, <1>2
<1>4. \A id : IsLetter(id)' <=> IsLetter(id) BY DEF IsLetter
<1>5. \A id : IdUsed(id)' => IdUsed(id) \/ id = q.id BY <1>1, <1>4 DEF IdUsed
<1>6. MailIdsApart'
  <2>1. MailIdsApart BY DEF MailsInv
  <2>2. \A c \in mailCalls : c.req.id # q.id BY <1>1 DEF IdUsed
  <2>3. \A m \in mailed : m.id # q.id BY <1>1 DEF IdUsed
  <2> QED BY <1>1, <2>1, <2>2, <2>3 DEF MailIdsApart
<1>7. \A m \in mailed' : m \in mailed /\ MailKept(m)'
  <2> TAKE m \in mailed'
  <2>1. MailKept(m) BY DEF MailsInv
  <2>2. mailCalls \subseteq mailCalls' BY <1>1
  <2> QED BY <1>4, <2>1, <2>2 DEF MailKept
<1>8. letters' \in Seq(Letters) /\ LettersOnce' BY DEF MailsInv, LettersOnce
<1> QED BY <1>1, <1>3, <1>4, <1>5, <1>6, <1>7, <1>8, MailStepEnds

LEMMA MailCreateLooksInv == ASSUME MailsInv, NEW q \in mailDue, MailCreateLooks(q) PROVE MailsInv'
<1> PICK phase : phase = IF q.key \notin DOMAIN mailRows /\ MailAcceptable(q.dto) THEN "save" ELSE "refused" OBVIOUS
<1> PICK d : d = [req |-> q, phase |-> phase, anchor |-> "null", refs |-> <<>>] OBVIOUS
<1>1. q.op = "create" /\ MailArrives(q, phase, "null") /\ UNCHANGED <<mailRows, letters, mailed, repliedLog, rowsLost>>
  BY DEF MailCreateLooks
<1>2. MailDtoOK(q.dto) /\ q.id \in STRING BY <1>1 DEF MailsInv, MailAwaits
<1>3. phase # "refused" => MailCallFits(d) BY <1>2 DEF MailCallFits
<1> QED BY <1>1, <1>3, MailBegins

LEMMA SendFindsInv == ASSUME MailsInv, NEW q \in mailDue, SendFinds(q) PROVE MailsInv'
<1> PICK phase : phase = IF q.key \in DOMAIN mailRows /\ q.key[1] = "ours" /\ correspondent.sender = "somebody"
                           THEN "anchor" ELSE "refused" OBVIOUS
<1> PICK d : d = [req |-> q, phase |-> phase, anchor |-> "null", refs |-> <<>>] OBVIOUS
<1>1. MailArrives(q, phase, "null") /\ UNCHANGED <<mailRows, letters, mailed, repliedLog, rowsLost>>
  BY DEF SendFinds
<1>2. q.id \in STRING BY DEF MailsInv, MailAwaits
<1>3. phase # "refused" => MailCallFits(d) BY <1>2 DEF MailCallFits, MailSendFits
<1> QED BY <1>1, <1>3, MailBegins

LEMMA MailTestsInv == ASSUME MailsInv, NEW q \in mailDue, MailTests(q) PROVE MailsInv'
<1> PICK d : d = [req |-> q, phase |-> "refused", anchor |-> "null", refs |-> <<>>] OBVIOUS
<1>1. MailArrives(q, "refused", "null") /\ UNCHANGED <<mailRows, letters, repliedLog, rowsLost>> BY DEF MailTests
<1>2. mailDue' \subseteq mailDue /\ q \notin mailDue' /\ mailCalls' = mailCalls /\ ~IdUsed(q.id) /\ q.id \in STRING
  BY <1>1, MailComes
<1>3. CASE UNCHANGED mailed BY <1>1, <1>3, MailBegins
<1> PICK old : old = mailRows[q.key] OBVIOUS
<1> PICK row : row = [old EXCEPT !.kind = "TEST"] OBVIOUS
<1> PICK values : values = MailValues(old, q.over, ForAddress) OBVIOUS
<1>4. CASE q.key \in DOMAIN mailRows /\ "null" \notin ToSet(values) /\ MailPosts(q.id, row, values, "null", <<>>)
  <2> PICK m : m = [id |-> q.id, kind |-> row.kind, values |-> values, open |-> LeftOpen(row), anchor |-> "null", refs |-> <<>>]
    OBVIOUS
  <2>1. mailed' = mailed \cup {m} /\ m.id = q.id BY <1>4 DEF MailPosts
  <2>2. MailRowOK(old) BY <1>4 DEF MailsInv
  <2>3. row.kind = "TEST" /\ row.subject = old.subject /\ row.body = old.body /\ row.mapping = old.mapping BY <2>2 DEF MailRowOK
  <2>4. LeftOpen(row) = {}
    <3>1. LeftOpen(row) = LeftOpen(old) BY <2>3 DEF LeftOpen
    <3>2. LeftOpen(old) = {} BY <2>2 DEF MailRowOK
    <3> QED BY <3>1, <3>2
  <2>5. ToSet(values) \cap {"", "null"} = {} BY <1>4, <2>2, MailFills, MailResolves
  <2>6. m.kind = "TEST" /\ MailOK(m) BY <1>2, <2>3, <2>4, <2>5 DEF MailOK, Threaded
  <2>7. \A id : IsLetter(id)' <=> IsLetter(id) BY <1>1 DEF IsLetter
  <2>8. \A id : IdUsed(id)' => IdUsed(id) \/ id = q.id BY <1>2, <2>1, <2>7 DEF IdUsed
  <2>9. \A c \in mailCalls : c.req.id # q.id BY <1>2 DEF IdUsed
  <2>10. MailIdsApart' BY <1>2, <2>1, <2>9 DEF MailsInv, MailIdsApart
  <2>11. \A x \in mailed' : (x \in mailed \/ MailOK(x)) /\ MailKept(x)'
    <3> TAKE x \in mailed'
    <3>1. CASE x = m BY <3>1, <2>6 DEF MailKept
    <3>2. CASE x # m
      <4>1. x \in mailed /\ MailKept(x) BY <3>2, <2>1 DEF MailsInv
      <4> QED BY <4>1, <1>1, <1>2, <2>7 DEF MailKept
    <3> QED BY <3>1, <3>2
  <2>12. letters' \in Seq(Letters) /\ LettersOnce' BY <1>1 DEF MailsInv, LettersOnce
  <2> QED BY <1>1, <1>2, <2>7, <2>8, <2>10, <2>11, <2>12, MailStepEnds
<1> QED BY <1>3, <1>4 DEF MailTests

LEMMA LetterComesInv == ASSUME MailsInv, NEW q \in mailDue, LetterComes(q) PROVE MailsInv'
<1> PICK d : d = [req |-> q, phase |-> "refused", anchor |-> "null", refs |-> <<>>] OBVIOUS
<1>1. /\ q.op = "letter" /\ MailArrives(q, "refused", "null") /\ UNCHANGED <<mailRows, mailed, repliedLog, rowsLost>>
      /\ letters' = Append(letters, [id |-> q.id, inbound |-> q.inbound])
  BY DEF LetterComes
<1>2. mailDue' \subseteq mailDue /\ q \notin mailDue' /\ mailCalls' = mailCalls /\ ~IdUsed(q.id) /\ q.id \in STRING
  BY <1>1, MailComes
<1>3. q.inbound \in BOOLEAN /\ letters \in Seq(Letters) /\ LettersOnce /\ ~IsLetter(q.id)
  BY <1>1, <1>2 DEF MailsInv, MailAwaits, IdUsed
<1>4. letters' \in Seq(Letters) /\ LettersOnce' /\ \A x : IsLetter(x)' <=> IsLetter(x) \/ x = q.id
  BY <1>1, <1>2, <1>3, LetterAdds
<1>5. \A id : IdUsed(id)' => IdUsed(id) \/ id = q.id BY <1>1, <1>2, <1>4 DEF IdUsed
<1>6. MailIdsApart' BY <1>1, <1>2 DEF MailsInv, MailIdsApart
<1>7. \A m \in mailed' : m \in mailed /\ MailKept(m)' BY <1>1, <1>2, <1>4 DEF MailsInv, MailKept
<1> QED BY <1>1, <1>2, <1>4, <1>5, <1>6, <1>7, MailStepEnds
----------------------------------------------------------------------------
(* A call that ends or goes on before it has posted, and nothing else.     *)
LEMMA MailMoves ==
  ASSUME MailsInv, NEW c \in mailCalls, c.phase # "keep", UNCHANGED <<mailRows, mailDue, letters, mailed, repliedLog, rowsLost>>,
         NEW d, MailEnds(c) \/ (MailGoesOn(c, d) /\ d.req = c.req /\ MailCallFits(d))
  PROVE  MailsInv'
<1>1. \A e \in mailCalls' : (e \in mailCalls /\ e # c) \/ (e = d /\ d.req = c.req /\ MailCallFits(d))
  BY DEF MailEnds, MailGoesOn
<1>2. \A e \in mailCalls : e = c \/ e \in mailCalls' BY DEF MailEnds, MailGoesOn
<1>3. MailCallFits(d) => MailCallFits(d)' BY DEF MailCallFits, MailSendFits, IsLetter
<1>4. \A e \in mailCalls' : e \in mailCalls \/ MailCallFits(e)' BY <1>1, <1>3
<1>5. \A id : IsLetter(id)' <=> IsLetter(id) BY DEF IsLetter
<1>6. \A id : IdUsed(id)' => IdUsed(id) BY <1>1, <1>5 DEF IdUsed
<1>7. MailIdsApart BY DEF MailsInv
<1>8. \A m \in mailed : m.id # c.req.id BY <1>7 DEF MailIdsApart
<1>9. MailIdsApart'
  <2>1. \A e, f \in mailCalls' : e.req.id = f.req.id => e = f
    <3> TAKE e, f \in mailCalls'
    <3> HAVE e.req.id = f.req.id
    <3> QED BY <1>1, <1>7 DEF MailIdsApart
  <2>2. \A e \in mailCalls', m \in mailed' : m.id = e.req.id => e.phase = "keep" BY <1>1, <1>7, <1>8 DEF MailIdsApart
  <2> QED BY <1>7, <2>1, <2>2 DEF MailIdsApart
<1>10. \A m \in mailed' : m \in mailed /\ MailKept(m)'
  <2> TAKE m \in mailed'
  <2>1. MailKept(m) BY DEF MailsInv
  <2> QED BY <1>2, <1>5, <1>8, <2>1 DEF MailKept
<1>11. letters' \in Seq(Letters) /\ LettersOnce' BY DEF MailsInv, LettersOnce
<1> QED BY <1>4, <1>5, <1>6, <1>9, <1>10, <1>11, MailStepEnds

LEMMA MailCreateSavesInv == ASSUME MailsInv, NEW c \in mailCalls, MailCreateSaves(c) PROVE MailsInv'
<1>1. c.phase = "save" /\ MailEnds(c) /\ UNCHANGED <<mailDue, letters, mailed, repliedLog, rowsLost>> BY DEF MailCreateSaves
<1> PICK k : k = c.req.key OBVIOUS
<1> PICK row : row = MailRow(c.req.dto) OBVIOUS
<1>2. MailDtoOK(c.req.dto) /\ MailAcceptable(c.req.dto) BY <1>1 DEF MailsInv, MailCallFits, MailSendFits
<1>3. MailRowOK(row) BY <1>2, AcceptedRow
<1>4. mailRows' = IF k \in DOMAIN mailRows THEN mailRows
                  ELSE [j \in DOMAIN mailRows \cup {k} |-> IF j = k THEN row ELSE mailRows[j]]
  BY DEF MailCreateSaves
<1>5. /\ \A j \in DOMAIN mailRows : j \in DOMAIN mailRows' /\ mailRows'[j] = mailRows[j]
      /\ \A j \in DOMAIN mailRows' : j \in DOMAIN mailRows \/ MailRowOK(mailRows'[j])
  BY <1>3, <1>4
<1>6. mailCalls' = mailCalls \ {c} BY <1>1 DEF MailEnds
<1>7. \A id : IsLetter(id)' <=> IsLetter(id) BY <1>1 DEF IsLetter
<1>8. \A id : IdUsed(id)' => IdUsed(id) BY <1>1, <1>6, <1>7 DEF IdUsed
<1>9. MailIdsApart BY DEF MailsInv
<1>10. MailIdsApart' BY <1>1, <1>6, <1>9 DEF MailIdsApart
<1>11. \A m \in mailed : m.id # c.req.id BY <1>1, <1>9 DEF MailIdsApart
<1>12. \A m \in mailed' : m \in mailed /\ MailKept(m)'
  <2> TAKE m \in mailed'
  <2>1. MailKept(m) /\ m \in mailed BY <1>1 DEF MailsInv
  <2> QED BY <1>1, <1>6, <1>7, <1>11, <2>1 DEF MailKept
<1>13. letters' \in Seq(Letters) /\ LettersOnce' BY <1>1 DEF MailsInv, LettersOnce
<1>14. \A e \in mailCalls' : e \in mailCalls BY <1>6
<1> QED BY <1>1, <1>5, <1>7, <1>8, <1>10, <1>12, <1>13, <1>14, MailStepEnds
----------------------------------------------------------------------------
(* A bounded set of numbers has a greatest one, and that is its maximum.   *)
LEMMA MaxIs ==
  ASSUME NEW n \in Nat, NEW T, T \subseteq 1 .. n, T # {}
  PROVE  Max(T) \in T /\ \A j \in T : j <= Max(T)
<1> DEFINE R == {ss \in Nat \X Nat : ss[1] < ss[2]}
           U == {n - i : i \in T}
<1>1. IsWellFoundedOn(R, Nat) BY NatLessThanWellFounded DEF OpToRel
<1>2. U \subseteq Nat /\ U # {}
  <2>1. PICK i \in T : TRUE OBVIOUS
  <2>2. n - i \in U OBVIOUS
  <2>3. \A j \in T : n - j \in Nat OBVIOUS
  <2> QED BY <2>2, <2>3
<1>3. PICK u \in U : \A v \in U : <<v, u>> \notin R BY <1>1, <1>2, WFMin
<1>4. PICK i \in T : u = n - i BY <1>3
<1>5. \A j \in T : j <= i
  <2> TAKE j \in T
  <2>1. n - j \in U /\ n - j \in Nat /\ n - i \in Nat OBVIOUS
  <2>2. ~(n - j < n - i) BY <1>3, <1>4, <2>1
  <2> QED BY <2>1, <2>2
<1>6. \E x \in T : \A y \in T : x >= y BY <1>5
<1>7. Max(T) = CHOOSE x \in T : \A y \in T : x >= y BY DEF Max
<1>8. Max(T) \in T /\ \A y \in T : Max(T) >= y BY <1>6, <1>7
<1>9. Max(T) \in Nat /\ \A j \in T : j \in Nat
  <2>1. 1 .. n \subseteq Nat OBVIOUS
  <2> QED BY ONLY <1>8, <2>1, T \subseteq 1 .. n
<1> QED BY <1>8, <1>9

LEMMA SendAnchorsInv == ASSUME MailsInv, NEW c \in mailCalls, SendAnchors(c) PROVE MailsInv'
<1>1. c.phase = "anchor" /\ UNCHANGED <<mailRows, mailDue, letters, mailed, repliedLog, rowsLost>> BY DEF SendAnchors
<1>2. MailCallFits(c) /\ MailSendFits(c) BY <1>1 DEF MailsInv, MailCallFits
<1> PICK kind : kind = mailRows[c.req.key].kind OBVIOUS
<1>3. kind \in {"REPLY", "OUTREACH"} BY <1>2 DEF MailsInv, MailRowOK, MailSendFits
<1>4. CASE kind = "OUTREACH"
  <2> PICK d : d = [c EXCEPT !.phase = "gather"] OBVIOUS
  <2>1. MailGoesOn(c, d) BY <1>4 DEF SendAnchors
  <2>2. d.req = c.req /\ d.phase = "gather" /\ d.anchor = "null" /\ d.refs = <<>>
        /\ d = [req |-> d.req, phase |-> d.phase, anchor |-> d.anchor, refs |-> d.refs]
    BY <1>1, <1>2 DEF MailCallFits, MailSendFits
  <2>3. MailCallFits(d) BY <1>2, <1>4, <2>2 DEF MailCallFits, MailSendFits
  <2> QED BY <1>1, <2>1, <2>2, <2>3, MailMoves
<1>5. CASE kind # "OUTREACH" /\ MailEnds(c) BY <1>1, <1>5, MailMoves
<1> PICK id : id = letters[Max(MailsIn)].id OBVIOUS
<1> PICK d : d = [c EXCEPT !.phase = "gather", !.anchor = id] OBVIOUS
<1>6. CASE kind # "OUTREACH" /\ MailsIn # {} /\ MailGoesOn(c, d)
  <2>1. IsLetter(id)
    <3>1. letters \in Seq(Letters) /\ Len(letters) \in Nat /\ DOMAIN letters = 1 .. Len(letters)
      BY LenProperties DEF MailsInv
    <3>2. MailsIn \subseteq 1 .. Len(letters) BY <3>1 DEF MailsIn
    <3>3. Max(MailsIn) \in MailsIn BY <1>6, <3>1, <3>2, MaxIs
    <3>4. Max(MailsIn) \in DOMAIN letters BY <3>3 DEF MailsIn
    <3> QED BY <3>4 DEF IsLetter
  <2>2. d.req = c.req /\ d.phase = "gather" /\ d.anchor = id /\ d.refs = <<>>
        /\ d = [req |-> d.req, phase |-> d.phase, anchor |-> d.anchor, refs |-> d.refs]
    BY <1>1, <1>2 DEF MailCallFits, MailSendFits
  <2>3. MailCallFits(d) BY <1>2, <1>3, <1>6, <2>1, <2>2 DEF MailCallFits, MailSendFits
  <2> QED BY <1>1, <1>6, <2>2, <2>3, MailMoves
<1> QED BY <1>3, <1>4, <1>5, <1>6 DEF SendAnchors

(* Whoever was there when the anchor was taken is there when the           *)
(* references are gathered.                                                *)
LEMMA SendGathersInv == ASSUME MailsInv, NEW c \in mailCalls, SendGathers(c) PROVE MailsInv'
<1>1. c.phase = "gather" /\ UNCHANGED <<mailRows, mailDue, letters, mailed, repliedLog, rowsLost>> BY DEF SendGathers
<1>2. MailCallFits(c) /\ MailSendFits(c) BY <1>1 DEF MailsInv, MailCallFits
<1> PICK kind : kind = mailRows[c.req.key].kind OBVIOUS
<1> PICK refs : refs = IF kind = "REPLY" THEN [i \in DOMAIN letters |-> letters[i].id] ELSE <<>> OBVIOUS
<1> PICK d : d = [c EXCEPT !.phase = "post", !.refs = refs] OBVIOUS
<1>3. MailGoesOn(c, d) BY DEF SendGathers
<1>4. Threaded(kind, c.anchor, refs)
  <2>1. CASE kind = "REPLY"
    <3>1. PICK i \in DOMAIN letters : letters[i].id = c.anchor BY <1>1, <1>2, <2>1 DEF MailSendFits, IsLetter
    <3>2. refs = [j \in DOMAIN letters |-> letters[j].id] BY <2>1
    <3>3. i \in DOMAIN refs /\ refs[i] = c.anchor BY <3>1, <3>2
    <3> QED BY <2>1, <3>3 DEF Threaded, ToSet
  <2>2. CASE kind # "REPLY" BY <1>1, <1>2, <2>2 DEF MailSendFits, Threaded
  <2> QED BY <2>1, <2>2
<1>5. d.req = c.req /\ d.phase = "post" /\ d.anchor = c.anchor /\ d.refs = refs
      /\ d = [req |-> d.req, phase |-> d.phase, anchor |-> d.anchor, refs |-> d.refs]
  BY <1>2 DEF MailCallFits
<1>6. MailCallFits(d) BY <1>2, <1>4, <1>5 DEF MailCallFits, MailSendFits
<1> QED BY <1>1, <1>3, <1>5, <1>6, MailMoves

LEMMA SendPostsInv == ASSUME MailsInv, NEW c \in mailCalls, SendPosts(c) PROVE MailsInv'
<1>1. c.phase = "post" /\ UNCHANGED <<mailRows, mailDue, letters, repliedLog>> BY DEF SendPosts
<1>2. MailCallFits(c) /\ MailSendFits(c) BY <1>1 DEF MailsInv, MailCallFits
<1> PICK row : row = mailRows[c.req.key] OBVIOUS
<1> PICK values : values = MailValues(row, {}, ForTicket) OBVIOUS
<1> PICK d : d = [c EXCEPT !.phase = "keep"] OBVIOUS
<1>3. CASE MailEnds(c) /\ UNCHANGED <<mailed, rowsLost>> BY <1>1, <1>3, MailMoves
<1>4. CASE /\ "null" \notin ToSet(values) /\ MailPosts(c.req.id, row, values, c.anchor, c.refs)
           /\ MailGoesOn(c, d) /\ UNCHANGED rowsLost
  <2> PICK m : m = [id |-> c.req.id, kind |-> row.kind, values |-> values, open |-> LeftOpen(row), anchor |-> c.anchor, refs |-> c.refs]
    OBVIOUS
  <2>1. mailed' = mailed \cup {m} /\ m.id = c.req.id BY <1>4 DEF MailPosts
  <2>2. MailRowOK(row) BY <1>2 DEF MailsInv, MailSendFits
  <2>3. MailOK(m)
    <3>1. ToSet(values) \cap {"", "null"} = {} BY <1>4, <2>2, MailFills, MailResolves
    <3>2. LeftOpen(row) = {} /\ Threaded(row.kind, c.anchor, c.refs) BY <1>1, <1>2, <2>2 DEF MailRowOK, MailSendFits
    <3> QED BY <3>1, <3>2, <1>2 DEF MailOK, MailCallFits
  <2>4. d.req = c.req /\ d.phase = "keep" /\ d = [req |-> d.req, phase |-> d.phase, anchor |-> d.anchor, refs |-> d.refs]
    BY <1>2 DEF MailCallFits
  <2>5. MailCallFits(d)' BY <1>1, <1>2, <2>4 DEF MailCallFits, MailSendFits
  <2>6. mailCalls' = (mailCalls \ {c}) \cup {d} BY <1>4 DEF MailGoesOn
  <2>7. \A e \in mailCalls' : e \in mailCalls \/ MailCallFits(e)' BY <2>5, <2>6
  <2>8. \A id : IsLetter(id)' <=> IsLetter(id) BY <1>1 DEF IsLetter
  <2>9. \A id : IdUsed(id)' => IdUsed(id)
    <3>1. \A e \in mailCalls' : \E f \in mailCalls : f.req.id = e.req.id BY <2>4, <2>6
    <3>2. \A x \in mailed' : x \in mailed \/ \E f \in mailCalls : f.req.id = x.id BY <2>1
    <3> QED BY <3>1, <3>2, <2>8 DEF IdUsed
  <2>10. MailIdsApart'
    <3>1. MailIdsApart BY DEF MailsInv
    <3>2. \A e \in mailCalls' : e = d \/ (e \in mailCalls /\ e.req.id # c.req.id) BY <3>1, <2>6 DEF MailIdsApart
    <3>3. \A e, f \in mailCalls' : e.req.id = f.req.id => e = f
      <4> TAKE e, f \in mailCalls'
      <4> HAVE e.req.id = f.req.id
      <4> QED BY <3>1, <3>2, <2>4 DEF MailIdsApart
    <3>4. \A e \in mailCalls', x \in mailed' : x.id = e.req.id => e.phase = "keep"
      BY <3>1, <3>2, <2>1, <2>4 DEF MailIdsApart
    <3> QED BY <3>1, <3>3, <3>4, <1>1 DEF MailIdsApart
  <2>11. \A x \in mailed' : (x \in mailed \/ MailOK(x)) /\ MailKept(x)'
    <3> TAKE x \in mailed'
    <3>1. CASE x = m BY <3>1, <2>1, <2>3, <2>4, <2>6 DEF MailKept
    <3>2. CASE x # m
      <4>1. x \in mailed /\ MailKept(x) BY <3>2, <2>1 DEF MailsInv
      <4>2. (\E e \in mailCalls : e.req.id = x.id) => \E e \in mailCalls' : e.req.id = x.id BY <2>4, <2>6
      <4> QED BY <4>1, <4>2, <1>4, <2>8 DEF MailKept
    <3> QED BY <3>1, <3>2
  <2>12. letters' \in Seq(Letters) /\ LettersOnce' BY <1>1 DEF MailsInv, LettersOnce
  <2> QED BY <1>1, <1>4, <2>7, <2>8, <2>9, <2>10, <2>11, <2>12, MailStepEnds
<1> QED BY <1>3, <1>4 DEF SendPosts

LEMMA SendKeepsInv == ASSUME MailsInv, NEW c \in mailCalls, SendKeeps(c) PROVE MailsInv'
<1> PICK id : id = c.req.id OBVIOUS
<1>1. c.phase = "keep" /\ mailCalls' = mailCalls \ {c} /\ UNCHANGED <<mailRows, mailDue, mailed>> BY DEF SendKeeps, MailEnds
<1>2. id \in STRING /\ letters \in Seq(Letters) /\ LettersOnce BY DEF MailsInv, MailCallFits
<1>3. MailIdsApart' BY <1>1 DEF MailsInv, MailIdsApart
<1>4. \A e \in mailCalls' : e \in mailCalls BY <1>1
<1>5. ASSUME letters' \in Seq(Letters), LettersOnce', \A x : IsLetter(x) => IsLetter(x)', \A x : IsLetter(x)' => IsLetter(x) \/ x = id,
             IsLetter(id)' \/ id \in rowsLost', rowsLost \subseteq rowsLost', \A x \in repliedLog' : x \in repliedLog \/ IsLetter(x)'
      PROVE  MailsInv'
  <2>1. \A x : IdUsed(x)' => IdUsed(x) BY <1>1, <1>5 DEF IdUsed
  <2>2. \A m \in mailed' : m \in mailed /\ MailKept(m)'
    <3> TAKE m \in mailed'
    <3>1. m \in mailed /\ MailKept(m) BY <1>1 DEF MailsInv
    <3>2. CASE m.id = id
      <4>1. MailKept(m)' BY <3>2, <1>5, <1>1 DEF MailKept
      <4> QED BY <3>1, <4>1
    <3>3. CASE m.id # id
      <4>1. (\E e \in mailCalls : e.req.id = m.id) => \E e \in mailCalls' : e.req.id = m.id BY <1>1, <3>3
      <4> QED BY <3>1, <4>1, <1>5 DEF MailKept
    <3> QED BY <3>1, <3>2, <3>3
  <2> QED BY <1>1, <1>3, <1>4, <1>5, <2>1, <2>2, MailStepEnds
<1>6. CASE IsLetter(id) /\ UNCHANGED <<letters, repliedLog, rowsLost>>
  <2>1. \A x : IsLetter(x)' <=> IsLetter(x) BY <1>6 DEF IsLetter
  <2> QED BY <1>2, <1>5, <1>6, <2>1 DEF LettersOnce
<1>7. CASE ~IsLetter(id) /\ rowsLost' = rowsLost \cup {id} /\ UNCHANGED <<letters, repliedLog>>
  <2>1. \A x : IsLetter(x)' <=> IsLetter(x) BY <1>7 DEF IsLetter
  <2> QED BY <1>2, <1>5, <1>7, <2>1 DEF LettersOnce
<1>8. CASE /\ ~IsLetter(id) /\ letters' = Append(letters, [id |-> id, inbound |-> FALSE])
           /\ repliedLog' = repliedLog \cup {id} /\ UNCHANGED rowsLost
  <2>1. letters' \in Seq(Letters) /\ LettersOnce' /\ \A x : IsLetter(x)' <=> IsLetter(x) \/ x = id
    BY <1>2, <1>8, LetterAdds
  <2> QED BY <1>5, <1>8, <2>1
<1> QED BY <1>6, <1>7, <1>8 DEF SendKeeps, KeepsRow

LEMMA CopyComesInv == ASSUME MailsInv, NEW m \in mailed, CopyComes(m) PROVE MailsInv'
<1>1. /\ ~IsLetter(m.id) /\ letters' = Append(letters, [id |-> m.id, inbound |-> FALSE])
      /\ UNCHANGED <<mailRows, mailCalls, mailDue, mailed, repliedLog, rowsLost>>
  BY DEF CopyComes
<1>2. m.id \in STRING /\ letters \in Seq(Letters) /\ LettersOnce BY DEF MailsInv, MailOK
<1>3. letters' \in Seq(Letters) /\ LettersOnce' /\ \A x : IsLetter(x)' <=> IsLetter(x) \/ x = m.id
  BY <1>1, <1>2, LetterAdds
<1>4. \A x : IdUsed(x)' => IdUsed(x) BY <1>1, <1>3 DEF IdUsed
<1>5. MailIdsApart' BY <1>1 DEF MailsInv, MailIdsApart
<1>6. \A x \in mailed' : x \in mailed /\ MailKept(x)' BY <1>1, <1>3 DEF MailsInv, MailKept
<1> QED BY <1>1, <1>3, <1>4, <1>5, <1>6, MailStepEnds
----------------------------------------------------------------------------
LEMMA MailsStart == ASSUME NEW c \in MailCases, MailTemplatesInit(c) PROVE MailsInv
<1>1. letters = c.letters /\ mailDue = c.asks /\ mailRows = <<>> /\ mailCalls = {} /\ mailed = {} /\ repliedLog = {}
  BY DEF MailTemplatesInit
<1>2. MailCaseOK(c) BY MailCasesAssumption
<1>3. letters \in Seq(Letters) /\ LettersOnce BY <1>1, <1>2 DEF MailCaseOK, Letters, LettersOnce
<1>4. \A k \in DOMAIN mailRows : MailRowOK(mailRows[k]) BY <1>1, NoPlaces
<1>5. \A q \in mailDue : MailAwaits(q) BY <1>1, <1>2 DEF MailCaseOK, MailAwaits, IdUsed, IsLetter
<1>6. MailIdsApart BY <1>1, <1>2 DEF MailCaseOK, MailIdsApart
<1> QED BY <1>1, <1>3, <1>4, <1>5, <1>6 DEF MailsInv

LEMMA MailTemplatesStep == ASSUME MailsInv, [MailTemplatesNext]_mailTemplateVars PROVE MailsInv'
<1>1. CASE UNCHANGED mailTemplateVars
  <2>1. UNCHANGED <<mailRows, mailCalls, mailDue, letters, mailed, repliedLog, rowsLost>> BY <1>1 DEF mailTemplateVars
  <2>2. \A x : IsLetter(x)' <=> IsLetter(x) BY <2>1 DEF IsLetter
  <2>3. \A x : IdUsed(x)' => IdUsed(x) BY <2>1, <2>2 DEF IdUsed
  <2>4. letters' \in Seq(Letters) /\ LettersOnce' /\ MailIdsApart' BY <2>1 DEF MailsInv, LettersOnce, MailIdsApart
  <2>5. \A m \in mailed' : m \in mailed /\ MailKept(m)' BY <2>1, <2>2 DEF MailsInv, MailKept
  <2> QED BY <2>1, <2>2, <2>3, <2>4, <2>5, MailStepEnds
<1>2. ASSUME NEW q \in mailDue, MailCreateLooks(q) \/ MailTests(q) \/ SendFinds(q) \/ LetterComes(q) PROVE MailsInv'
  BY <1>2, MailCreateLooksInv, MailTestsInv, SendFindsInv, LetterComesInv
<1>3. ASSUME NEW c \in mailCalls, MailCreateSaves(c) \/ SendAnchors(c) \/ SendGathers(c) \/ SendPosts(c) \/ SendKeeps(c)
      PROVE  MailsInv'
  BY <1>3, MailCreateSavesInv, SendAnchorsInv, SendGathersInv, SendPostsInv, SendKeepsInv
<1>4. ASSUME NEW m \in mailed, CopyComes(m) PROVE MailsInv' BY <1>4, CopyComesInv
<1> QED BY <1>1, <1>2, <1>3, <1>4 DEF MailTemplatesNext

LEMMA MailsAreSound == ASSUME MailsInv PROVE MailsSound
<1>1. NothingLeftOpen /\ ThreadedAsAnswered BY DEF MailsInv, MailOK, Threaded, NothingLeftOpen, ThreadedAsAnswered
<1>2. MailAccounted BY DEF MailsInv, LettersOnce, MailKept, MailAccounted
<1> QED BY <1>1, <1>2 DEF MailsSound

LEMMA MailsHold == MailTemplatesSpec => []MailsSound
<1>1. (\E c \in MailCases : MailTemplatesInit(c)) => MailsInv BY MailsStart
<1>2. MailsInv /\ [MailTemplatesNext]_mailTemplateVars => MailsInv' BY MailTemplatesStep
<1>3. MailsInv => MailsSound BY MailsAreSound
<1> QED BY <1>1, <1>2, <1>3, PTL DEF MailTemplatesSpec
----------------------------------------------------------------------------
(* What is sent by template or by the bot is what the customer gets, and   *)
(* rows are kept of it only: the three share nothing, and each keeps its   *)
(* part (WhatsappTemplatesService, EmailTemplatesService, the adapter).    *)
THEOREM SendsCorrect == SendsSpec => []SendsSound
<1>1. TemplatesSpec => []TemplatesSound BY TemplatesHold
<1>2. MailTemplatesSpec => []MailsSound BY MailsHold
<1>3. TalkSpec => [](RowsAreTaken /\ AnyChoiceFits) BY TalkHolds
<1>4. TemplatesSound /\ MailsSound /\ RowsAreTaken /\ AnyChoiceFits => SendsSound BY DEF SendsSound
<1> QED BY <1>1, <1>2, <1>3, <1>4, PTL DEF SendsSpec

(***************************************************************************)
(* The orders shown beside a ticket: every list put together is one of all *)
(* the orders there are, each once and richest first, so what is read of   *)
(* it by pages is too (CustomerOrdersService).                             *)
(***************************************************************************)
(* A list of all orders: each once, by its richest snapshot, in order.     *)
OrdersCount == Cardinality(TheirOrders)
IsListed(s) ==
  /\ Len(s) = OrdersCount /\ DOMAIN s = 1 .. OrdersCount
  /\ \A i \in 1 .. OrdersCount : s[i] \in Richest(OrderOf(s[i]))
  /\ \A x \in TheirOrders : \E i \in 1 .. OrdersCount : OrderOf(s[i]) = x
  /\ \A i, j \in 1 .. OrdersCount : OrderOf(s[i]) = OrderOf(s[j]) => i = j
  /\ InTime(s)

OpsFormed ==
  IsFiniteSet(ops) /\ \A o \in ops \cup opsDue : o.at \in Nat /\ o.url \in BOOLEAN /\ o.later \in BOOLEAN

LEMMA RichestIs ==
  ASSUME NEW x, NEW o \in Richest(x)
  PROVE  o \in Snapshots /\ o \in ops /\ OrderOf(o) = x /\ x \in TheirOrders /\ \A p \in Snapshots : OrderOf(p) = x => AsRich(o, p)
BY DEF Richest, Snapshots, TheirOrders

LEMMA CountIsNat ==
  ASSUME OpsFormed
  PROVE  IsFiniteSet(Snapshots) /\ IsFiniteSet(TheirOrders) /\ OrdersCount \in Nat
<1>1. IsFiniteSet(Snapshots) BY FS_Subset DEF OpsFormed, Snapshots
<1>2. IsFiniteSet(TheirOrders)
  <2>1. PICK f : f = [o \in Snapshots |-> OrderOf(o)] OBVIOUS
  <2>2. f \in Surjection(Snapshots, TheirOrders) BY <2>1 DEF Surjection, TheirOrders
  <2> QED BY <1>1, <2>2, FS_Surjection
<1> QED BY <1>1, <1>2, FS_CardinalityType DEF OrdersCount

LEMMA ListsAre ==
  ASSUME OpsFormed, NEW s \in Lists
  PROVE  IsListed(s)
<1> DEFINE best == UNION {Richest(x) : x \in TheirOrders}
           N == OrdersCount
<1>0. IsFiniteSet(TheirOrders) /\ N \in Nat BY CountIsNat
<1>1. PICK r : r \in SUBSET best /\ OnePerOrder(r) /\ s \in SetToSeqs(r) /\ InTime(s) BY DEF Lists
<1>2. \A o \in r : o \in Richest(OrderOf(o)) /\ OrderOf(o) \in TheirOrders /\ o \in ops BY <1>1, RichestIs
<1>3. IsFiniteSet(r)
  <2>1. r \subseteq ops BY <1>2
  <2> QED BY <2>1, FS_Subset DEF OpsFormed
<1>4. ASSUME NEW x \in TheirOrders PROVE \E o \in r : \A p \in r : OrderOf(p) = x <=> p = o
  <2>1. PICK q : q = {o \in r : OrderOf(o) = x} OBVIOUS
  <2>2. IsFiniteSet(q) BY <1>3, <2>1, FS_Subset
  <2>3. Cardinality(q) = 1 BY <1>1, <2>1 DEF OnePerOrder
  <2>4. \E o : q = {o} BY <2>2, <2>3, FS_Singleton
  <2> QED BY <2>1, <2>4
<1>5. PICK f : f = [o \in r |-> OrderOf(o)] OBVIOUS
<1>6. f \in Bijection(r, TheirOrders)
  <2>1. f \in [r -> TheirOrders] BY <1>2, <1>5
  <2>2. \A x \in TheirOrders : \E o \in r : f[o] = x BY <1>4, <1>5
  <2>3. \A o, p \in r : f[o] = f[p] => o = p BY <1>2, <1>4, <1>5
  <2>4. f \in Injection(r, TheirOrders) BY <2>1, <2>3 DEF Injection, IsInjective
  <2>5. f \in Surjection(r, TheirOrders) BY <2>1, <2>2 DEF Surjection
  <2> QED BY <2>4, <2>5 DEF Bijection
<1>7. Cardinality(r) = N
  <2>1. ExistsBijection(r, TheirOrders) BY <1>6 DEF ExistsBijection
  <2> QED BY <1>3, <2>1, FS_Bijection DEF OrdersCount
<1>8. s \in [1 .. N -> r] /\ \A i, j \in 1 .. N : i # j => s[i] # s[j] BY <1>1, <1>7 DEF SetToSeqs
<1>9. s \in Injection(1 .. N, r) BY <1>8 DEF Injection, IsInjective
<1>10. s \in Surjection(1 .. N, r)
  <2>1. Cardinality(1 .. N) = N BY <1>0, FS_Interval
  <2> QED BY <1>3, <1>7, <1>9, <2>1, FS_Injection
<1>11. s \in Seq(r) /\ Len(s) = N /\ DOMAIN s = 1 .. N
  <2>1. s \in Seq(r) BY <1>0, <1>8 DEF Seq
  <2>2. DOMAIN s = 1 .. N /\ s = [i \in 1 .. N |-> s[i]] BY <1>8
  <2>3. Len(s) = N BY <1>0, <2>2, CountedIsSeq
  <2> QED BY <2>1, <2>2, <2>3
<1>12. \A i \in 1 .. N : s[i] \in Richest(OrderOf(s[i])) BY <1>2, <1>8
<1>13. \A x \in TheirOrders : \E i \in 1 .. N : OrderOf(s[i]) = x
  <2> TAKE x \in TheirOrders
  <2>1. PICK o \in r : OrderOf(o) = x BY <1>4
  <2>2. PICK i \in 1 .. N : s[i] = o BY <1>10, <2>1 DEF Surjection
  <2> QED BY <2>1, <2>2
<1>14. \A i, j \in 1 .. N : OrderOf(s[i]) = OrderOf(s[j]) => i = j
  <2> TAKE i, j \in 1 .. N
  <2> HAVE OrderOf(s[i]) = OrderOf(s[j])
  <2>1. s[i] \in r /\ s[j] \in r BY <1>8
  <2>2. OrderOf(s[i]) \in TheirOrders BY <1>2, <2>1
  <2>3. s[i] = s[j] BY <1>4, <2>1, <2>2
  <2> QED BY <1>8, <2>3
<1> QED BY <1>1, <1>11, <1>12, <1>13, <1>14 DEF IsListed
----------------------------------------------------------------------------
(* Two of the richest snapshots of an order bear the same time.            *)
LEMMA RichestTime ==
  ASSUME OpsFormed, NEW x, NEW o \in Richest(x), NEW p \in Richest(x)
  PROVE  o.at = p.at /\ o.at \in Nat
<1>1. AsRich(o, p) /\ AsRich(p, o) /\ o \in ops /\ p \in ops BY RichestIs
<1>2. o.at \in Nat /\ p.at \in Nat BY <1>1 DEF OpsFormed
<1>3. o.at >= p.at BY <1>1 DEF AsRich, NotBefore
<1>4. p.at >= o.at BY <1>1 DEF AsRich, NotBefore
<1> QED BY <1>2, <1>3, <1>4

NewerOrders(x) == {y \in TheirOrders : \E o \in Richest(y), p \in Richest(x) : o.at > p.at}

(* The place of an order in a list is one more than the newer ones.        *)
LEMMA PlaceCounts ==
  ASSUME OpsFormed, Distinct, NEW s, IsListed(s), NEW i \in 1 .. OrdersCount
  PROVE  Cardinality(NewerOrders(OrderOf(s[i]))) = i - 1
<1> DEFINE N == OrdersCount
           T == NewerOrders(OrderOf(s[i]))
<1>0. N \in Nat /\ i \in Nat BY CountIsNat
<1>1. \A j \in 1 .. N : s[j] \in Richest(OrderOf(s[j])) /\ s[j] \in Snapshots /\ s[j].at \in Nat /\ OrderOf(s[j]) \in TheirOrders
  BY RichestIs, RichestTime DEF IsListed
<1>2. \A j, k \in 1 .. N : j < k => s[j].at > s[k].at
  <2> TAKE j, k \in 1 .. N
  <2> HAVE j < k
  <2>1. s[j].at >= s[k].at BY DEF IsListed, InTime, NotBefore
  <2>2. s[j].at # s[k].at
    <3>1. OrderOf(s[j]) # OrderOf(s[k]) BY <1>0 DEF IsListed
    <3> QED BY <1>1, <3>1 DEF Distinct
  <2> QED BY <1>1, <2>1, <2>2
<1>3. \A j \in 1 .. N : OrderOf(s[j]) \in T <=> j < i
  <2> TAKE j \in 1 .. N
  <2>1. OrderOf(s[j]) \in T <=> s[j].at > s[i].at
    <3>1. \A o \in Richest(OrderOf(s[j])) : o.at = s[j].at BY <1>1, RichestTime
    <3>2. \A p \in Richest(OrderOf(s[i])) : p.at = s[i].at BY <1>1, RichestTime
    <3> QED BY <1>1, <3>1, <3>2 DEF NewerOrders
  <2>2. CASE j < i BY <1>2, <2>1, <2>2
  <2>3. CASE j = i BY <1>0, <1>1, <2>1, <2>3
  <2>4. CASE i < j
    <3>1. s[i].at > s[j].at /\ s[i].at \in Nat /\ s[j].at \in Nat BY <1>1, <1>2, <2>4
    <3> QED BY <1>0, <2>1, <2>4, <3>1
  <2> QED BY <1>0, <2>2, <2>3, <2>4
<1>4. PICK f : f = [j \in 1 .. i - 1 |-> OrderOf(s[j])] OBVIOUS
<1>5. \A j \in 1 .. i - 1 : j \in 1 .. N /\ j < i BY <1>0
<1>6. f \in Bijection(1 .. i - 1, T)
  <2>1. f \in [1 .. i - 1 -> T] BY <1>3, <1>4, <1>5
  <2>2. \A x \in T : \E j \in 1 .. i - 1 : f[j] = x
    <3> TAKE x \in T
    <3>1. x \in TheirOrders BY DEF NewerOrders
    <3>2. PICK j \in 1 .. N : OrderOf(s[j]) = x BY <3>1 DEF IsListed
    <3>3. j < i BY <1>3, <3>2
    <3>4. j \in 1 .. i - 1 BY <1>0, <3>3
    <3> QED BY <1>4, <3>2, <3>4
  <2>3. \A j, k \in 1 .. i - 1 : f[j] = f[k] => j = k BY <1>4, <1>5 DEF IsListed
  <2>4. f \in Injection(1 .. i - 1, T) BY <2>1, <2>3 DEF Injection, IsInjective
  <2>5. f \in Surjection(1 .. i - 1, T) BY <2>1, <2>2 DEF Surjection
  <2> QED BY <2>4, <2>5 DEF Bijection
<1>7. IsFiniteSet(1 .. i - 1) /\ Cardinality(1 .. i - 1) = i - 1 BY <1>0, FS_Interval
<1>8. ExistsBijection(1 .. i - 1, T) BY <1>6 DEF ExistsBijection
<1> QED BY <1>7, <1>8, FS_Bijection

(* So times that differ leave one order.                                   *)
LEMMA OneOrder ==
  ASSUME OpsFormed, Distinct, NEW s, IsListed(s), NEW t, IsListed(t)
  PROVE  \A i \in 1 .. OrdersCount : OrderOf(s[i]) = OrderOf(t[i])
<1> TAKE i \in 1 .. OrdersCount
<1>1. OrderOf(t[i]) \in TheirOrders BY RichestIs DEF IsListed
<1>2. PICK k \in 1 .. OrdersCount : OrderOf(s[k]) = OrderOf(t[i]) BY <1>1 DEF IsListed
<1>3. Cardinality(NewerOrders(OrderOf(s[k]))) = k - 1 BY PlaceCounts
<1>4. Cardinality(NewerOrders(OrderOf(t[i]))) = i - 1 BY PlaceCounts
<1>5. k = i BY <1>2, <1>3, <1>4, CountIsNat
<1> QED BY <1>2, <1>5
----------------------------------------------------------------------------
ShownRows == {row \in [order: TheirOrders, track: BOOLEAN, could: BOOLEAN] : row.could => row.track}

(* What has been read is a beginning of the list, and all of it at the end. *)
Begins(s) ==
  /\ Len(ordersRead.rows) <= OrdersCount
  /\ \A i \in 1 .. Len(ordersRead.rows) : ordersRead.rows[i].order = OrderOf(s[i])
  /\ ~ordersRead.more => Len(ordersRead.rows) = OrdersCount
ReadPaged ==
  ~ordersRead.moved /\ Distinct =>
    (ordersRead.rows = <<>> /\ ordersRead.more) \/ \E s : IsListed(s) /\ Begins(s)
RowsRead ==
  /\ ordersRead = [rows |-> ordersRead.rows, more |-> ordersRead.more, moved |-> ordersRead.moved]
  /\ ordersRead.rows \in Seq(ShownRows)
OrdersInv == OpsFormed /\ RowsRead /\ ReadPaged

LEMMA ShownIsRow ==
  ASSUME OpsFormed, NEW o \in Snapshots, o \in Richest(OrderOf(o))
  PROVE  Shown(o) \in ShownRows /\ Shown(o).order = OrderOf(o)
<1>1. PICK row : row = Shown(o) OBVIOUS
<1>2. PICK track : track = (o.url \/ o.later) OBVIOUS
<1>3. PICK could : could = (\E p \in Snapshots : OrderOf(p) = OrderOf(o) /\ p.url) OBVIOUS
<1>4. row = [order |-> OrderOf(o), track |-> track, could |-> could] BY <1>1, <1>2, <1>3 DEF Shown
<1>5. o \in ops /\ OrderOf(o) \in TheirOrders BY RichestIs
<1>6. track \in BOOLEAN /\ could \in BOOLEAN BY <1>2, <1>3
<1>7. ASSUME could PROVE track
  <2>1. PICK p \in Snapshots : OrderOf(p) = OrderOf(o) /\ p.url BY <1>3, <1>7
  <2>2. AsRich(o, p) BY <2>1, RichestIs
  <2>3. o.url BY <2>1, <2>2 DEF AsRich
  <2> QED BY <1>2, <2>3
<1>8. row.order = OrderOf(o) /\ row.track = track /\ row.could = could BY <1>4
<1>9. row \in [order: TheirOrders, track: BOOLEAN, could: BOOLEAN] BY <1>4, <1>5, <1>6
<1> QED BY <1>1, <1>7, <1>8, <1>9 DEF ShownRows

(* A page is what comes next in the list, and there is more after it only  *)
(* if the list goes on.                                                    *)
PageOf(s, off, rows, more, page) ==
  /\ rows = Fetched(s, off) /\ more = (Len(rows) > OrdersLimit)
  /\ page = IF more THEN SubSeq(rows, 1, OrdersLimit) ELSE rows
PageComes(s, off, more, page) ==
  /\ page \in Seq(Snapshots) /\ \A i \in 1 .. Len(page) : off + i \in 1 .. OrdersCount /\ page[i] = s[off + i]
  /\ off <= OrdersCount => off + Len(page) <= OrdersCount /\ (~more => off + Len(page) = OrdersCount)
LEMMA PageIs ==
  ASSUME OpsFormed, NEW s, IsListed(s), NEW off \in Nat, NEW rows, NEW more, NEW page, PageOf(s, off, rows, more, page)
  PROVE  PageComes(s, off, more, page)
<1>a. /\ rows = Fetched(s, off) /\ more = (Len(rows) > OrdersLimit)
      /\ page = IF more THEN SubSeq(rows, 1, OrdersLimit) ELSE rows
  BY DEF PageOf
<1> DEFINE N == OrdersCount
           L == OrdersLimit
<1>0. N \in Nat /\ L \in Nat /\ L > 0 /\ Len(s) = N BY CountIsNat, OrdersAssumption DEF IsListed
<1>1. PICK last : last = IF off + 1 + (L + 1) <= N THEN off + 1 + (L + 1) - 1 ELSE N OBVIOUS
<1>3. last \in Nat /\ last <= N BY <1>0, <1>1
<1>4. rows = SubSeq(s, off + 1, last) BY <1>a, <1>0, <1>1 DEF Fetched, UpTo
<1>5. \A i \in 1 .. N : s[i] \in Snapshots BY RichestIs DEF IsListed
<1>6. \A i \in off + 1 .. last : s[i] \in Snapshots BY <1>0, <1>3, <1>5
<1>7. /\ rows \in Seq(Snapshots) /\ Len(rows) = IF off + 1 <= last THEN last - (off + 1) + 1 ELSE 0
      /\ \A i \in 1 .. last - (off + 1) + 1 : rows[i] = s[off + 1 + i - 1]
  BY <1>0, <1>3, <1>4, <1>6, SubSeqProperties
<1>8. Len(rows) \in Nat /\ Len(rows) <= L + 1 /\ \A i \in 1 .. Len(rows) : off + i \in 1 .. N /\ rows[i] = s[off + i]
  <2>1. Len(rows) \in Nat BY <1>7, LenProperties
  <2>2. Len(rows) <= L + 1 BY <1>0, <1>1, <1>7
  <2>3. \A i \in 1 .. Len(rows) : i \in 1 .. last - (off + 1) + 1 /\ off + i \in 1 .. N /\ off + 1 + i - 1 = off + i
    BY <1>0, <1>3, <1>7
  <2> QED BY <1>7, <2>1, <2>2, <2>3
<1>9. off <= N => off + Len(rows) <= N /\ (~(Len(rows) > L) => off + Len(rows) = N) BY <1>0, <1>1, <1>7
<1>10. CASE ~more
  <2>1. page = rows /\ ~(Len(rows) > L) BY <1>a, <1>10
  <2> QED BY <1>7, <1>8, <1>9, <1>10, <2>1 DEF PageComes
<1>11. CASE more
  <2>1. page = SubSeq(rows, 1, L) /\ Len(rows) > L BY <1>a, <1>11
  <2>2. \A i \in 1 .. L : i \in 1 .. Len(rows) BY <1>0, <1>8, <2>1
  <2>3. \A i \in 1 .. L : rows[i] \in Snapshots BY <1>5, <1>8, <2>2
  <2>4. page \in Seq(Snapshots) /\ Len(page) = L /\ \A i \in 1 .. L : page[i] = rows[i]
    <3>1. /\ SubSeq(rows, 1, L) \in Seq(Snapshots)
          /\ Len(SubSeq(rows, 1, L)) = IF 1 <= L THEN L - 1 + 1 ELSE 0
          /\ \A i \in 1 .. L - 1 + 1 : SubSeq(rows, 1, L)[i] = rows[1 + i - 1]
      BY <1>0, <2>3, SubSeqProperties
    <3> QED BY <1>0, <2>1, <3>1
  <2>5. \A i \in 1 .. Len(page) : off + i \in 1 .. N /\ page[i] = s[off + i] BY ONLY <1>8, <2>2, <2>4
  <2>6. off <= N => off + Len(page) <= N BY ONLY <1>0, <1>8, <1>9, <2>1, <2>4
  <2> QED BY ONLY <1>11, <2>4, <2>5, <2>6 DEF PageComes
<1> QED BY <1>10, <1>11

LEMMA ReadsPageInv == ASSUME OrdersInv, ReadsPage PROVE OrdersInv'
<1>1. PICK s \in Lists :
        LET rows == Fetched(s, Len(ordersRead.rows))
            more == Len(rows) > OrdersLimit
            page == IF more THEN SubSeq(rows, 1, OrdersLimit) ELSE rows IN
        ordersRead' = [ordersRead EXCEPT !.rows = @ \o [i \in DOMAIN page |-> Shown(page[i])], !.more = more]
  BY DEF ReadsPage
<1>2. UNCHANGED <<contact, ops, opsDue>> /\ ordersRead.more BY DEF ReadsPage
<1>3. PICK off : off = Len(ordersRead.rows) OBVIOUS
<1>4. PICK rows : rows = Fetched(s, off) OBVIOUS
<1>5. PICK more : more = (Len(rows) > OrdersLimit) OBVIOUS
<1>6. PICK page : page = IF more THEN SubSeq(rows, 1, OrdersLimit) ELSE rows OBVIOUS
<1>7. PICK added : added = [i \in DOMAIN page |-> Shown(page[i])] OBVIOUS
<1>8. PICK old : old = ordersRead.rows OBVIOUS
<1>9. ordersRead' = [ordersRead EXCEPT !.rows = old \o added, !.more = more]
  BY ONLY <1>1, <1>3, <1>4, <1>5, <1>6, <1>7, <1>8
<1>10. IsListed(s) /\ OpsFormed BY ListsAre DEF OrdersInv
<1>11. old \in Seq(ShownRows) /\ off \in Nat /\ off = Len(old) BY <1>3, <1>8, LenProperties DEF OrdersInv, RowsRead
<1>12. /\ page \in Seq(Snapshots) /\ \A i \in 1 .. Len(page) : off + i \in 1 .. OrdersCount /\ page[i] = s[off + i]
       /\ off <= OrdersCount => off + Len(page) <= OrdersCount /\ (~more => off + Len(page) = OrdersCount)
  <2>1. PageOf(s, off, rows, more, page) BY ONLY <1>4, <1>5, <1>6 DEF PageOf
  <2>2. PageComes(s, off, more, page) BY ONLY <1>10, <1>11, <2>1, PageIs
  <2> QED BY ONLY <2>2 DEF PageComes
<1>13. Len(page) \in Nat /\ DOMAIN page = 1 .. Len(page) BY <1>12, LenProperties
<1>14. \A i \in 1 .. Len(page) : Shown(page[i]) \in ShownRows /\ Shown(page[i]).order = OrderOf(s[off + i])
  <2> TAKE i \in 1 .. Len(page)
  <2>1. page[i] = s[off + i] /\ off + i \in 1 .. OrdersCount BY <1>12
  <2>2. page[i] \in Richest(OrderOf(page[i])) BY <1>10, <2>1 DEF IsListed
  <2>3. page[i] \in Snapshots BY <2>2, RichestIs
  <2> QED BY <1>10, <2>1, <2>2, <2>3, ShownIsRow
<1>15. added \in Seq(ShownRows) /\ Len(added) = Len(page) /\ \A i \in 1 .. Len(page) : added[i] = Shown(page[i])
  <2>1. added = [i \in 1 .. Len(page) |-> Shown(page[i])] BY <1>7, <1>13
  <2>2. added \in [1 .. Len(page) -> ShownRows] BY <1>14, <2>1
  <2>3. added \in Seq(ShownRows) BY <1>13, <2>2 DEF Seq
  <2>4. DOMAIN added = 1 .. Len(page) BY <2>1
  <2>5. Len(added) = Len(page) BY <1>13, <2>1, <2>4, CountedIsSeq
  <2> QED BY <2>1, <2>3, <2>5
<1>16. PICK new : new = old \o added OBVIOUS
<1>17. /\ new \in Seq(ShownRows) /\ Len(new) = off + Len(page)
       /\ \A i \in 1 .. off + Len(page) : new[i] = IF i <= off THEN old[i] ELSE added[i - off]
  <2>1. /\ old \o added \in Seq(ShownRows) /\ Len(old \o added) = Len(old) + Len(added)
        /\ \A i \in 1 .. Len(old) + Len(added) : (old \o added)[i] = IF i <= Len(old) THEN old[i] ELSE added[i - Len(old)]
    BY ONLY <1>11, <1>15, ConcatProperties
  <2> QED BY ONLY <1>11, <1>15, <1>16, <2>1
<1>18. ordersRead' = [rows |-> new, more |-> more, moved |-> ordersRead.moved] BY <1>9, <1>16 DEF OrdersInv, RowsRead
<1>19. OpsFormed' BY <1>2, <1>10 DEF OpsFormed
<1>20. TheirOrders' = TheirOrders /\ OrdersCount' = OrdersCount /\ ShownRows' = ShownRows /\ Distinct' = Distinct
  BY <1>2 DEF TheirOrders, OrdersCount, ShownRows, Distinct, Snapshots, OfCustomer
<1>21. \A z : IsListed(z)' <=> IsListed(z)
  BY <1>2 DEF IsListed, TheirOrders, OrdersCount, Richest, Snapshots, OfCustomer
<1>22. RowsRead' BY <1>17, <1>18, <1>20 DEF RowsRead
<1>23. ASSUME ~ordersRead'.moved, Distinct' PROVE Begins(s)'
  <2>1. ~ordersRead.moved /\ Distinct BY <1>18, <1>20, <1>23
  <2>2. off <= OrdersCount /\ \A i \in 1 .. off : old[i].order = OrderOf(s[i])
    <3>1. CASE old = <<>> BY <1>11, <3>1, CountIsNat, <1>10
    <3>2. CASE old # <<>>
      <4>1. PICK t : IsListed(t) /\ Begins(t) BY <1>8, <2>1, <3>2 DEF OrdersInv, ReadPaged
      <4>2. off <= OrdersCount /\ \A i \in 1 .. off : old[i].order = OrderOf(t[i]) BY <1>3, <1>8, <4>1 DEF Begins
      <4>3. \A i \in 1 .. OrdersCount : OrderOf(s[i]) = OrderOf(t[i]) BY <1>10, <2>1, <4>1, OneOrder
      <4>4. \A i \in 1 .. off : i \in 1 .. OrdersCount BY <1>10, <1>11, <4>2, CountIsNat
      <4> QED BY <4>2, <4>3, <4>4
    <3> QED BY <3>1, <3>2
  <2>3. \A i \in 1 .. off + Len(page) : new[i].order = OrderOf(s[i])
    <3> TAKE i \in 1 .. off + Len(page)
    <3>1. CASE i <= off BY <1>11, <1>13, <1>17, <2>2, <3>1
    <3>2. CASE ~(i <= off)
      <4>1. i - off \in 1 .. Len(page) /\ off + (i - off) = i BY <1>11, <1>13, <3>2
      <4>2. new[i] = Shown(page[i - off]) BY <1>15, <1>17, <3>2, <4>1
      <4>3. Shown(page[i - off]).order = OrderOf(s[off + (i - off)]) BY <1>14, <4>1
      <4> QED BY <4>1, <4>2, <4>3
    <3> QED BY <3>1, <3>2
  <2>4. off + Len(page) <= OrdersCount /\ (~more => off + Len(page) = OrdersCount) BY <1>12, <2>2
  <2>5. ordersRead'.rows = new /\ ordersRead'.more = more BY <1>18
  <2>6. \A i : OrderOf(s[i])' = OrderOf(s[i]) BY DEF OrderOf
  <2> QED BY <1>17, <1>20, <2>3, <2>4, <2>5 DEF Begins, OrderOf
<1>24. ReadPaged' BY <1>10, <1>21, <1>23 DEF ReadPaged
<1> QED BY <1>19, <1>22, <1>24 DEF OrdersInv

LEMMA OpsMovesInv == ASSUME OrdersInv, NEW x \in opsDue, OpsMoves(x) PROVE OrdersInv'
<1>1. ops' = ops \cup {x} /\ opsDue' \subseteq opsDue /\ contact' = contact BY DEF OpsMoves
<1>2. ordersRead' = [rows |-> ordersRead.rows, more |-> ordersRead.more, moved |-> TRUE] BY DEF OrdersInv, RowsRead, OpsMoves
<1>3. OpsFormed'
  <2>1. IsFiniteSet(ops') BY <1>1, FS_AddElement DEF OrdersInv, OpsFormed
  <2> QED BY <1>1, <2>1 DEF OrdersInv, OpsFormed
<1>4. TheirOrders \subseteq TheirOrders' BY <1>1 DEF TheirOrders, Snapshots, OfCustomer
<1>5. ShownRows \subseteq ShownRows' BY <1>4 DEF ShownRows
<1>6. PICK old : old = ordersRead.rows OBVIOUS
<1>7. old \in Seq(ShownRows)'
  <2>1. old \in Seq(ShownRows) BY <1>6 DEF OrdersInv, RowsRead
  <2>2. Len(old) \in Nat /\ old \in [1 .. Len(old) -> ShownRows] BY <2>1, LenProperties
  <2>3. old \in [1 .. Len(old) -> ShownRows'] BY <1>5, <2>2
  <2> QED BY <2>2, <2>3 DEF Seq
<1>8. RowsRead' BY <1>2, <1>6, <1>7 DEF RowsRead
<1>9. ReadPaged' BY <1>2 DEF ReadPaged
<1> QED BY <1>3, <1>8, <1>9 DEF OrdersInv

LEMMA OrdersStart == ASSUME NEW c \in OrdersCases, OrdersInit(c) PROVE OrdersInv
<1>1. ops = c.ops /\ opsDue = c.comes /\ ordersRead = [rows |-> <<>>, more |-> TRUE, moved |-> FALSE] BY DEF OrdersInit
<1>2. OpsFormed BY <1>1, OrdersAssumption DEF OpsFormed
<1> QED BY <1>1, <1>2 DEF OrdersInv, RowsRead, ReadPaged

LEMMA OrdersStep == ASSUME OrdersInv, [OrdersNext]_ordersVars PROVE OrdersInv'
<1>1. ASSUME ReadsAnew PROVE OrdersInv'
  <2>1. UNCHANGED <<ops, opsDue>> /\ ordersRead' = [rows |-> <<>>, more |-> TRUE, moved |-> FALSE] BY <1>1 DEF ReadsAnew
  <2>2. OpsFormed' BY <2>1 DEF OrdersInv, OpsFormed
  <2> QED BY <2>1, <2>2 DEF OrdersInv, RowsRead, ReadPaged
<1>2. ASSUME UNCHANGED ordersVars PROVE OrdersInv'
  <2>1. contact' = contact /\ ops' = ops /\ opsDue' = opsDue /\ ordersRead' = ordersRead BY <1>2 DEF ordersVars
  <2>2. OpsFormed' BY <2>1 DEF OrdersInv, OpsFormed
  <2>3. TheirOrders' = TheirOrders /\ OrdersCount' = OrdersCount /\ ShownRows' = ShownRows /\ Distinct' = Distinct
    BY <2>1 DEF TheirOrders, OrdersCount, ShownRows, Distinct, Snapshots, OfCustomer
  <2>4. \A z : IsListed(z)' <=> IsListed(z)
    BY <2>1 DEF IsListed, TheirOrders, OrdersCount, Richest, Snapshots, OfCustomer
  <2>5. \A z : Begins(z)' <=> Begins(z) BY <2>1, <2>3 DEF Begins
  <2>6. RowsRead' BY <2>1, <2>3 DEF OrdersInv, RowsRead
  <2>7. ReadPaged' BY <2>1, <2>3, <2>4, <2>5 DEF OrdersInv, ReadPaged
  <2> QED BY <2>2, <2>6, <2>7 DEF OrdersInv
<1> QED BY <1>1, <1>2, ReadsPageInv, OpsMovesInv DEF OrdersNext

LEMMA OrdersAreSound == ASSUME OrdersInv PROVE OrdersSound
<1>1. OpsFormed /\ RowsRead /\ ReadPaged BY DEF OrdersInv
<1>2. ordersRead.rows \in Seq(ShownRows) BY <1>1 DEF RowsRead
<1>3. Len(ordersRead.rows) \in Nat /\ DOMAIN ordersRead.rows = 1 .. Len(ordersRead.rows)
      /\ \A i \in DOMAIN ordersRead.rows : ordersRead.rows[i] \in ShownRows
  BY <1>2, LenProperties
<1>4. OrdersCovered
  <2>1. \A i \in DOMAIN ordersRead.rows : ordersRead.rows[i].order \in TheirOrders BY <1>3 DEF ShownRows
  <2>2. ASSUME ~ordersRead.more, ~ordersRead.moved, Distinct
        PROVE  /\ {ordersRead.rows[i].order : i \in DOMAIN ordersRead.rows} = TheirOrders
               /\ Len(ordersRead.rows) = OrdersCount
    <3>1. PICK s : IsListed(s) /\ Begins(s) BY <1>1, <2>2 DEF ReadPaged
    <3>2. Len(ordersRead.rows) = OrdersCount BY <2>2, <3>1 DEF Begins
    <3>3. \A i \in 1 .. OrdersCount : ordersRead.rows[i].order = OrderOf(s[i]) BY <3>1, <3>2 DEF Begins
    <3>4. \A x \in TheirOrders : \E i \in 1 .. OrdersCount : OrderOf(s[i]) = x BY <3>1 DEF IsListed
    <3>5. DOMAIN ordersRead.rows = 1 .. OrdersCount BY <1>3, <3>2
    <3> QED BY <2>1, <3>2, <3>3, <3>4, <3>5
  <2> QED BY <2>2 DEF OrdersCovered, OrdersCount
<1>5. TrackingShown BY <1>3 DEF TrackingShown, ShownRows
<1>6. LatestIsFirst
  <2> SUFFICES ASSUME Distinct, SameTime, NEW o \in Latest, NEW s \in Lists PROVE OrderOf(o) = OrderOf(s[1])
    BY DEF LatestIsFirst
  <2>1. IsListed(s) BY <1>1, ListsAre
  <2>2. o \in Snapshots /\ OrderOf(o) \in TheirOrders BY DEF Latest, TheirOrders
  <2>3. PICK j \in 1 .. OrdersCount : OrderOf(s[j]) = OrderOf(o) BY <2>1, <2>2 DEF IsListed
  <2>4. OrdersCount \in Nat /\ 1 \in 1 .. OrdersCount BY <1>1, <2>3, CountIsNat
  <2>5. \A i \in 1 .. OrdersCount : s[i] \in Snapshots /\ s[i] \in ops BY <2>1, RichestIs DEF IsListed
  <2>6. s[1] \in Snapshots /\ s[j] \in Snapshots /\ s[1].at \in Nat /\ s[j].at \in Nat /\ o.at \in Nat
    <3>1. o \in ops BY <2>2 DEF Snapshots
    <3> QED BY <1>1, <2>3, <2>4, <2>5, <3>1 DEF OpsFormed
  <2>7. s[1].at >= s[j].at BY <2>1, <2>3, <2>4, <2>6 DEF IsListed, InTime, NotBefore
  <2>8. s[j].at = o.at BY <2>2, <2>3, <2>6 DEF SameTime
  <2>9. o.at >= s[1].at BY <2>6 DEF Latest, NotBefore
  <2>10. s[1].at = o.at BY <2>6, <2>7, <2>8, <2>9
  <2> QED BY <2>2, <2>6, <2>10 DEF Distinct
<1> QED BY <1>4, <1>5, <1>6 DEF OrdersSound

THEOREM OrdersCorrect == OrdersSpec => []OrdersSound
<1>1. ASSUME NEW c \in OrdersCases PROVE OrdersInit(c) => OrdersInv BY OrdersStart
<1>2. (\E c \in OrdersCases : OrdersInit(c)) => OrdersInv BY <1>1
<1>3. OrdersInv /\ [OrdersNext]_ordersVars => OrdersInv' BY OrdersStep
<1>4. OrdersInv => OrdersSound BY OrdersAreSound
<1> QED BY <1>2, <1>3, <1>4, PTL DEF OrdersSpec

(***************************************************************************)
(* What the rule editor tells the admin. Whatever ticket a group matches,  *)
(* a value is picked for each attribute, since the ticket has one, and the *)
(* picked ones match the group (RuleValidatorService).                     *)
(***************************************************************************)
ConditionsIs == [attribute: STRING, operator: STRING, value: Values]
GroupValid(conds) ==
  /\ conds \in Seq(ConditionsIs) /\ Decided(conds) /\ \A j \in DOMAIN conds : ConditionValid(conds[j])

(* A condition's attribute, operator and value, by the type.               *)
LEMMA AttributesAre ==
  /\ \A a \in DOMAIN Attributes : Attributes[a].type \in {"integer", "enum", "channel", "string", "string_array"}
  /\ \A a \in DOMAIN Attributes : Attributes[a].type = "integer" => Attributes[a].ops = IntOps
  /\ \A a \in DOMAIN Attributes : Attributes[a].type \in {"enum", "channel"} => Attributes[a].ops = EnumOps
  /\ \A a \in DOMAIN Attributes : Attributes[a].type = "string_array" => Attributes[a].ops = ArrayOps
BY DEF Attributes, Integer, Text

LEMMA ValueIs ==
  ASSUME NEW v \in Values
  PROVE  /\ v = <<v[1], v[2]>> /\ (Is(v, "number") => v[2] \in Nat) /\ (Is(v, "list") => v[2] \in Seq(Seq(STRING)))
         /\ Is(v, "number") \/ Is(v, "text") \/ Is(v, "list")
BY DEF Values, Is

LEMMA AboutIs ==
  ASSUME NEW conds, NEW name
  PROVE  /\ \A c \in About(name, conds) : \E j \in DOMAIN conds : c = conds[j] /\ c.attribute = name
         /\ \A j \in DOMAIN conds : conds[j].attribute = name => conds[j] \in About(name, conds)
BY DEF About

LEMMA OfIs ==
  ASSUME NEW on, NEW op
  PROVE  /\ \A v \in Of(on, op) : \E c \in on : c.operator = op /\ c.value[2] = v
         /\ \A c \in on : c.operator = op => c.value[2] \in Of(on, op)
BY DEF Of
----------------------------------------------------------------------------
(* Numbers: one that a ticket has is left, and what is left holds.         *)
NumberOK(c, max) == c.operator \in IntOps /\ \E k \in 0..max : c.value = <<"number", k>>
LEMMA NumberHolds ==
  ASSUME NEW max \in Nat, NEW c, NumberOK(c, max), NEW n \in Int
  PROVE  /\ c.value[2] \in 0..max /\ c.operator \in IntOps
         /\ c.operator = "eq"  => (Holds(c, <<"number", n>>) <=> n = c.value[2])
         /\ c.operator = "neq" => (Holds(c, <<"number", n>>) <=> n # c.value[2])
         /\ c.operator = "gt"  => (Holds(c, <<"number", n>>) <=> n > c.value[2])
         /\ c.operator = "gte" => (Holds(c, <<"number", n>>) <=> n >= c.value[2])
         /\ c.operator = "lt"  => (Holds(c, <<"number", n>>) <=> n < c.value[2])
         /\ c.operator = "lte" => (Holds(c, <<"number", n>>) <=> n <= c.value[2])
<1>1. PICK k \in 0..max : c.value = <<"number", k>> BY DEF NumberOK
<1>2. c.value[2] = k /\ Is(c.value, "number") BY <1>1 DEF Is
<1>3. PICK v : v = <<"number", n>> OBVIOUS
<1>4. v[2] = n /\ Is(v, "number") /\ (v = c.value <=> n = k) BY <1>1, <1>3 DEF Is
<1>5. c.operator = "eq" => (Holds(c, v) <=> n = k) BY <1>4 DEF Holds, IntOps, EnumOps
<1>6. c.operator = "neq" => (Holds(c, v) <=> n # k) BY <1>4 DEF Holds, IntOps, EnumOps
<1>7. ASSUME c.operator \in {"gt", "gte", "lt", "lte"} PROVE Holds(c, v) <=> Compares(c.operator, n, k)
  BY <1>2, <1>4, <1>7 DEF Holds, IntOps, EnumOps
<1>8. /\ c.operator = "gt" => (Compares(c.operator, n, k) <=> n > k)
      /\ c.operator = "gte" => (Compares(c.operator, n, k) <=> n >= k)
      /\ c.operator = "lt" => (Compares(c.operator, n, k) <=> n < k)
      /\ c.operator = "lte" => (Compares(c.operator, n, k) <=> n <= k)
  BY DEF Compares
<1> QED BY <1>2, <1>3, <1>5, <1>6, <1>7, <1>8 DEF NumberOK

LEMMA LeastIs ==
  ASSUME NEW T, T \subseteq Nat, T # {}
  PROVE  \E n \in T : \A m \in T : n <= m
<1> DEFINE R == {ss \in Nat \X Nat : ss[1] < ss[2]}
<1>1. IsWellFoundedOn(R, Nat) BY NatLessThanWellFounded DEF OpToRel
<1>2. PICK n \in T : \A m \in T : <<m, n>> \notin R BY <1>1, WFMin
<1>3. \A m \in T : ~(m < n) BY <1>2
<1> QED BY <1>3

LEMMA FreeIs ==
  ASSUME NEW attr, attr.max \in Nat, NEW on, \A c \in on : NumberOK(c, attr.max), NEW n \in Nat
  PROVE  n \in Free(attr, on) /\ Of(on, "eq") \subseteq {n} <=> n \in 0..attr.max /\ \A c \in on : Holds(c, <<"number", n>>)
<1>1. \A c \in on : c.value[2] \in 0..attr.max /\ c.operator \in IntOps
  <2> TAKE c \in on
  <2>1. PICK k \in 0..attr.max : c.value = <<"number", k>> BY DEF NumberOK
  <2> QED BY <2>1 DEF NumberOK
<1>2. ASSUME n \in Free(attr, on), Of(on, "eq") \subseteq {n}, NEW c \in on PROVE Holds(c, <<"number", n>>)
  <2>1. c.value[2] \in Of(on, c.operator) BY OfIs
  <2>2. CASE c.operator = "eq" BY <1>1, <1>2, <2>1, <2>2, NumberHolds
  <2>3. CASE c.operator = "neq"
    <3>1. n # c.value[2] BY <1>2, <2>1, <2>3 DEF Free
    <3> QED BY <2>3, <3>1, NumberHolds
  <2>4. CASE c.operator = "gt"
    <3>1. n > c.value[2] BY <1>2, <2>1, <2>4 DEF Free
    <3> QED BY <2>4, <3>1, NumberHolds
  <2>5. CASE c.operator = "gte"
    <3>1. n >= c.value[2] BY <1>2, <2>1, <2>5 DEF Free
    <3> QED BY <2>5, <3>1, NumberHolds
  <2>6. CASE c.operator = "lt"
    <3>1. n < c.value[2] BY <1>2, <2>1, <2>6 DEF Free
    <3> QED BY <2>6, <3>1, NumberHolds
  <2>7. CASE c.operator = "lte"
    <3>1. n <= c.value[2] BY <1>2, <2>1, <2>7 DEF Free
    <3> QED BY <2>7, <3>1, NumberHolds
  <2> QED BY <1>1, <2>2, <2>3, <2>4, <2>5, <2>6, <2>7 DEF IntOps
<1>3. ASSUME n \in 0..attr.max, \A c \in on : Holds(c, <<"number", n>>)
      PROVE  n \in Free(attr, on) /\ Of(on, "eq") \subseteq {n}
  <2>1. \A m \in Of(on, "eq") : m = n BY <1>3, OfIs, NumberHolds
  <2>2. \A m \in Of(on, "neq") : m # n BY <1>3, OfIs, NumberHolds
  <2>3. \A m \in Of(on, "gt") : n > m BY <1>3, OfIs, NumberHolds
  <2>4. \A m \in Of(on, "gte") : n >= m BY <1>3, OfIs, NumberHolds
  <2>5. \A m \in Of(on, "lt") : n < m BY <1>3, OfIs, NumberHolds
  <2>6. \A m \in Of(on, "lte") : n <= m BY <1>3, OfIs, NumberHolds
  <2> QED BY <1>3, <2>1, <2>2, <2>3, <2>4, <2>5, <2>6 DEF Free
<1>4. n \in Free(attr, on) => n \in 0..attr.max BY DEF Free
<1> QED BY <1>2, <1>3, <1>4

LEMMA PicksNumber ==
  ASSUME NEW attr, attr.max \in Nat, NEW on, \A c \in on : NumberOK(c, attr.max),
         NEW n \in 0..attr.max, \A c \in on : Holds(c, <<"number", n>>)
  PROVE  PickInteger(attr, on) # {}
<1>1. n \in Free(attr, on) /\ Of(on, "eq") \subseteq {n} BY FreeIs
<1>2. CASE Of(on, "eq") = {}
  <2>1. Free(attr, on) \subseteq Nat BY DEF Free
  <2>2. PICK k \in Free(attr, on) : \A m \in Free(attr, on) : k <= m BY <1>1, <2>1, LeastIs
  <2>3. <<"number", k>> \in PickInteger(attr, on) BY <1>2, <2>2 DEF PickInteger
  <2> QED BY <2>3
<1>3. CASE Of(on, "eq") # {}
  <2>1. Of(on, "eq") = {n} BY <1>1, <1>3
  <2>2. n \in Anchored(Of(on, "eq"), Free(attr, on)) BY <1>1, <2>1 DEF Anchored
  <2>3. <<"number", n>> \in PickInteger(attr, on) BY <1>3, <2>2 DEF PickInteger
  <2> QED BY <2>3
<1> QED BY <1>2, <1>3

LEMMA NumberPicked ==
  ASSUME NEW attr, attr.max \in Nat, NEW on, \A c \in on : NumberOK(c, attr.max), NEW v \in PickInteger(attr, on)
  PROVE  \A c \in on : Holds(c, v)
<1>1. PICK n : /\ v = <<"number", n>>
               /\ n \in IF Of(on, "eq") = {} THEN {k \in Free(attr, on) : \A m \in Free(attr, on) : k <= m}
                        ELSE Anchored(Of(on, "eq"), Free(attr, on))
  BY DEF PickInteger
<1>2. n \in Free(attr, on) /\ Of(on, "eq") \subseteq {n}
  <2>1. CASE Of(on, "eq") = {} BY <1>1, <2>1
  <2>2. CASE Of(on, "eq") # {} BY <1>1, <2>2 DEF Anchored
  <2> QED BY <2>1, <2>2
<1>3. n \in Nat BY <1>2 DEF Free
<1> QED BY <1>1, <1>2, <1>3, FreeIs
----------------------------------------------------------------------------
(* Enums, and the ids of channels.                                         *)
WordOK(c) == c.operator \in EnumOps /\ \E w : c.value = <<"text", w>>
LEMMA WordHolds ==
  ASSUME NEW c, WordOK(c), NEW w
  PROVE  Holds(c, <<"text", w>>) <=> IF c.operator = "eq" THEN w = c.value[2] ELSE w # c.value[2]
<1>a. PICK u : c.value = <<"text", u>> BY DEF WordOK
<1>b. c.value[2] = u BY <1>a
<1>1. <<"text", w>> = c.value <=> w = c.value[2] BY <1>a, <1>b
<1>2. c.operator = "eq" \/ c.operator = "neq" BY DEF WordOK, EnumOps
<1> QED BY <1>1, <1>2 DEF Holds, IntOps, EnumOps

LEMMA PicksWord ==
  ASSUME NEW on, \A c \in on : WordOK(c), \E c \in on : c.operator = "eq", NEW v, \A c \in on : Holds(c, v)
  PROVE  PickEnum(on) # {}
<1>1. PICK c \in on : c.operator = "eq" OBVIOUS
<1>2. v = c.value BY <1>1 DEF Holds, IntOps, EnumOps
<1>3. PICK w : w = c.value[2] OBVIOUS
<1>4. v = <<"text", w>>
  <2>1. PICK u : c.value = <<"text", u>> BY DEF WordOK
  <2> QED BY <1>2, <1>3, <2>1
<1>5. \A d \in on : IF d.operator = "eq" THEN w = d.value[2] ELSE w # d.value[2] BY <1>4, WordHolds
<1>6. Of(on, "eq") = {w}
  <2>1. w \in Of(on, "eq") BY <1>1, <1>3, OfIs
  <2>2. \A u \in Of(on, "eq") : u = w BY <1>5, OfIs
  <2> QED BY <2>1, <2>2
<1>7. w \notin Of(on, "neq")
  <2> SUFFICES ASSUME w \in Of(on, "neq") PROVE FALSE OBVIOUS
  <2>1. PICK d \in on : d.operator = "neq" /\ d.value[2] = w BY OfIs
  <2> QED BY <1>5, <2>1
<1>8. \A d \in on : Is(d.value, "text")
  <2> TAKE d \in on
  <2>1. PICK u : d.value = <<"text", u>> BY DEF WordOK
  <2> QED BY <2>1 DEF Is
<1>9. <<"text", w>> \in PickEnum(on) BY <1>6, <1>7, <1>8 DEF PickEnum, Anchored
<1> QED BY <1>9

LEMMA WordPicked ==
  ASSUME NEW on, \A c \in on : WordOK(c), NEW v \in PickEnum(on)
  PROVE  \A c \in on : Holds(c, v)
<1>1. ~\E d \in on : ~Is(d.value, "text") BY DEF PickEnum
<1>2. PICK w \in Anchored(Of(on, "eq"), Of(on, "eq") \ Of(on, "neq")) : v = <<"text", w>> BY <1>1 DEF PickEnum
<1>3. Of(on, "eq") = {w} /\ w \notin Of(on, "neq") BY <1>2 DEF Anchored
<1> TAKE c \in on
<1>4. c.operator = "eq" \/ c.operator = "neq" BY DEF WordOK, EnumOps
<1>5. CASE c.operator = "eq"
  <2>1. c.value[2] = w BY <1>3, <1>5, OfIs
  <2> QED BY <1>2, <1>5, <2>1, WordHolds
<1>6. CASE c.operator = "neq"
  <2>1. c.value[2] # w BY <1>3, <1>6, OfIs
  <2> QED BY <1>2, <1>6, <2>1, WordHolds
<1> QED BY <1>4, <1>5, <1>6
----------------------------------------------------------------------------
(* Tags.                                                                   *)
TagOK(c) ==
  /\ c.operator \in ArrayOps /\ (Is(c.value, "text") <=> ~Is(c.value, "list"))
  /\ Is(c.value, "list") => c.value[2] \in Seq(Seq(STRING)) /\ \A i \in DOMAIN c.value[2] : c.value[2][i] # <<>>
LEMMA TagHolds ==
  ASSUME NEW c, TagOK(c), NEW v, Is(v, "tags")
  PROVE  Holds(c, v) <=> ListHolds(c.operator, v[2], c.value)
<1>1. c.operator \notin IntOps /\ c.operator \notin {"eq", "neq"} BY DEF TagOK, ArrayOps, IntOps
<1>2. ~Is(v, "text") BY DEF Is
<1> QED BY <1>1, <1>2 DEF Holds

LEMMA FirstIs ==
  ASSUME NEW l \in Seq(Seq(STRING)), NEW banned, NEW i \in DOMAIN l, l[i] \notin banned
  PROVE  \E j \in DOMAIN l : l[j] \in FirstLeft(l, banned) /\ l[j] \notin banned
<1> DEFINE T == {k \in DOMAIN l : l[k] \notin banned}
<1>1. DOMAIN l \subseteq Nat BY LenProperties
<1>2. T \subseteq Nat /\ i \in T BY <1>1
<1>3. PICK j \in T : \A k \in T : j <= k BY <1>2, LeastIs
<1>4. \A k \in DOMAIN l : k < j => l[k] \in banned
  <2> TAKE k \in DOMAIN l
  <2> HAVE k < j
  <2>1. k \in Nat /\ j \in Nat BY <1>1, <1>2
  <2>2. k \notin T BY <1>3, <2>1
  <2> QED BY <2>2
<1>5. l[j] \in FirstLeft(l, banned) BY <1>3, <1>4 DEF FirstLeft
<1> QED BY <1>3, <1>5

Texts(on) == {c \in on : Is(c.value, "text")}
Required(on) == Of(Texts(on), "contains")
Banned(on) == Of(Texts(on), "not_contains")
OptionLists(on) == Of({c \in on : Is(c.value, "list")}, "contains_any")
LEMMA ArrayIs ==
  ASSUME NEW on
  PROVE  PickArray(on) =
           IF Required(on) \cap Banned(on) # {} \/ \E l \in OptionLists(on) : FirstLeft(l, Banned(on)) \subseteq {<<>>} THEN {}
           ELSE {<<"tags", Required(on) \cup UNION {FirstLeft(l, Banned(on)) : l \in OptionLists(on)}>>}
BY DEF PickArray, Required, Banned, OptionLists, Texts

LEMMA PicksTags ==
  ASSUME NEW on, \A c \in on : TagOK(c), NEW v, Is(v, "tags"), \A c \in on : Holds(c, v)
  PROVE  PickArray(on) # {}
<1>1. \A c \in on : ListHolds(c.operator, v[2], c.value) BY TagHolds
<1>2. Required(on) \subseteq v[2]
  <2> SUFFICES ASSUME NEW u \in Required(on) PROVE u \in v[2] OBVIOUS
  <2>1. PICK c \in Texts(on) : c.operator = "contains" /\ c.value[2] = u BY OfIs DEF Required
  <2> QED BY <1>1, <2>1 DEF Texts, ListHolds
<1>3. Banned(on) \cap v[2] = {}
  <2> SUFFICES ASSUME NEW u \in Banned(on) PROVE u \notin v[2] OBVIOUS
  <2>1. PICK c \in Texts(on) : c.operator = "not_contains" /\ c.value[2] = u BY OfIs DEF Banned
  <2> QED BY <1>1, <2>1 DEF Texts, ListHolds
<1>4. \A l \in OptionLists(on) : ~(FirstLeft(l, Banned(on)) \subseteq {<<>>})
  <2> TAKE l \in OptionLists(on)
  <2>1. PICK c \in on : Is(c.value, "list") /\ c.operator = "contains_any" /\ c.value[2] = l BY OfIs DEF OptionLists
  <2>2. l \in Seq(Seq(STRING)) /\ \A i \in DOMAIN l : l[i] # <<>> BY <2>1 DEF TagOK
  <2>3. PICK i \in DOMAIN l : l[i] \in v[2] BY <1>1, <2>1 DEF ListHolds
  <2>4. l[i] \notin Banned(on) BY <1>3, <2>3
  <2>5. PICK j \in DOMAIN l : l[j] \in FirstLeft(l, Banned(on)) BY <2>2, <2>4, FirstIs
  <2> QED BY <2>2, <2>5
<1>5. PickArray(on) = {<<"tags", Required(on) \cup UNION {FirstLeft(l, Banned(on)) : l \in OptionLists(on)}>>}
  BY <1>2, <1>3, <1>4, ArrayIs
<1> QED BY <1>5

(* Nothing else is asked of tags than what a ticket that matches has.      *)
LEMMA TagsPicked ==
  ASSUME NEW on, \A c \in on : TagOK(c), NEW t, Is(t, "tags"), \A c \in on : Holds(c, t), NEW v \in PickArray(on)
  PROVE  \A c \in on : Holds(c, v)
<1> DEFINE picked == UNION {FirstLeft(l, Banned(on)) : l \in OptionLists(on)}
<1>1. /\ Required(on) \cap Banned(on) = {}
      /\ \A l \in OptionLists(on) : ~(FirstLeft(l, Banned(on)) \subseteq {<<>>})
      /\ v = <<"tags", Required(on) \cup picked>>
  BY ArrayIs
<1>2. Is(v, "tags") /\ v[2] = Required(on) \cup picked BY <1>1 DEF Is
<1>3. v[2] \cap Banned(on) = {}
  <2>1. \A l : FirstLeft(l, Banned(on)) \cap Banned(on) = {} BY DEF FirstLeft
  <2> QED BY <1>1, <1>2, <2>1
<1> HIDE DEF picked
<1> TAKE c \in on
<1>4. ListHolds(c.operator, t[2], c.value) BY TagHolds
<1>5. c.operator \in {"contains", "not_contains", "contains_any"} BY DEF TagOK, ArrayOps
<1>6. CASE c.operator = "contains"
  <2>1. Is(c.value, "text") BY <1>4, <1>6 DEF ListHolds
  <2>2. c.value[2] \in Required(on)
    <3>1. c \in Texts(on) BY <2>1 DEF Texts
    <3> QED BY <1>6, <3>1, OfIs DEF Required
  <2>3. ListHolds(c.operator, v[2], c.value) BY <1>2, <1>6, <2>1, <2>2 DEF ListHolds
  <2> QED BY <1>2, <2>3, TagHolds
<1>7. CASE c.operator = "not_contains"
  <2>1. ASSUME Is(c.value, "text") PROVE c.value[2] \notin v[2]
    <3>1. c \in Texts(on) BY <2>1 DEF Texts
    <3>2. c.value[2] \in Banned(on) BY <1>7, <3>1, OfIs DEF Banned
    <3> QED BY <1>3, <3>2
  <2>2. ListHolds(c.operator, v[2], c.value) BY <1>7, <2>1 DEF ListHolds
  <2> QED BY <1>2, <2>2, TagHolds
<1>8. CASE c.operator = "contains_any"
  <2>1. Is(c.value, "list") BY <1>4, <1>8 DEF ListHolds
  <2>2. PICK l : l = c.value[2] OBVIOUS
  <2>3. l \in OptionLists(on)
    <3>1. c \in {d \in on : Is(d.value, "list")} BY <2>1
    <3> QED BY <1>8, <2>2, <3>1, OfIs DEF OptionLists
  <2>4. PICK u \in FirstLeft(l, Banned(on)) : TRUE BY <1>1, <2>3
  <2>5. PICK i \in DOMAIN l : l[i] = u BY <2>4 DEF FirstLeft
  <2>6. u \in v[2] BY <1>2, <2>3, <2>4 DEF picked
  <2>7. ListHolds(c.operator, v[2], c.value) BY <1>8, <2>1, <2>2, <2>5, <2>6 DEF ListHolds
  <2> QED BY <1>2, <2>7, TagHolds
<1> QED BY <1>5, <1>6, <1>7, <1>8
----------------------------------------------------------------------------
(* A ticket for a group, whenever there is one.                            *)
LEMMA LastIsNat == \A a \in DOMAIN Attributes : Attributes[a].max \in Nat
BY RangesAssumption DEF Attributes, Integer, Text

LEMMA OneOf ==
  ASSUME NEW conds, GroupValid(conds), NEW name, NEW c \in About(name, conds)
  PROVE  /\ c.attribute = name /\ name \in DOMAIN Attributes /\ c.operator \in Attributes[name].ops
         /\ c.value \in Values /\ ValueValid(c.value, Attributes[name]) /\ DecidedValue(c)
<1>1. PICK j \in DOMAIN conds : c = conds[j] /\ c.attribute = name BY AboutIs
<1>2. conds[j] \in ConditionsIs /\ DecidedValue(conds[j]) /\ ConditionValid(conds[j]) BY ElementOfSeq DEF GroupValid, Decided
<1> QED BY <1>1, <1>2 DEF ConditionsIs, ConditionValid

LEMMA NumbersOK ==
  ASSUME NEW conds, GroupValid(conds), NEW name, Attributes[name].type = "integer"
  PROVE  \A c \in About(name, conds) : NumberOK(c, Attributes[name].max)
<1> TAKE c \in About(name, conds)
<1>1. name \in DOMAIN Attributes /\ c.operator \in IntOps BY OneOf, AttributesAre
<1>2. Is(c.value, "number") /\ c.value[2] \in 0..Attributes[name].max BY OneOf DEF ValueValid
<1>3. \E k \in 0..Attributes[name].max : c.value = <<"number", k>> BY <1>2, OneOf, ValueIs DEF Is
<1> QED BY <1>1, <1>3 DEF NumberOK

LEMMA WordsOK ==
  ASSUME NEW conds, GroupValid(conds), NEW name, Attributes[name].type \in {"enum", "channel"}
  PROVE  /\ \A c \in About(name, conds) : WordOK(c)
         /\ About(name, conds) # {} => \E c \in About(name, conds) : c.operator = "eq"
<1>1. ASSUME NEW c \in About(name, conds) PROVE WordOK(c)
  <2>1. name \in DOMAIN Attributes /\ c.operator \in EnumOps BY OneOf, AttributesAre
  <2>2. Is(c.value, "text") BY OneOf DEF ValueValid, DecidedValue
  <2>3. \E w : c.value = <<"text", w>> BY <2>2, OneOf, ValueIs DEF Is
  <2> QED BY <2>1, <2>3 DEF WordOK
<1>2. ASSUME NEW c \in About(name, conds) PROVE \E d \in About(name, conds) : d.operator = "eq"
  <2>1. PICK j \in DOMAIN conds : c = conds[j] /\ c.attribute = name BY AboutIs
  <2>2. PICK k \in DOMAIN conds : conds[k].attribute = name /\ conds[k].operator = "eq" BY <2>1 DEF GroupValid, Decided
  <2> QED BY <2>2, AboutIs
<1> QED BY <1>1, <1>2

LEMMA TagsOK ==
  ASSUME NEW conds, GroupValid(conds), NEW name, Attributes[name].type = "string_array"
  PROVE  \A c \in About(name, conds) : TagOK(c)
<1> TAKE c \in About(name, conds)
<1>1. name \in DOMAIN Attributes /\ c.operator \in ArrayOps BY OneOf, AttributesAre
<1>2. Is(c.value, "text") \/ Is(c.value, "list") BY OneOf DEF ValueValid
<1>3. Is(c.value, "text") <=> ~Is(c.value, "list") BY <1>2 DEF Is
<1>4. Is(c.value, "list") => c.value[2] \in Seq(Seq(STRING)) /\ \A i \in DOMAIN c.value[2] : c.value[2][i] # <<>>
  BY OneOf, ValueIs DEF DecidedValue
<1> QED BY <1>1, <1>3, <1>4 DEF TagOK

Named(conds) == {conds[j].attribute : j \in DOMAIN conds}
LEMMA ValuePicked ==
  ASSUME NEW conds, GroupValid(conds), NEW name \in Named(conds), NEW t, TicketFormed(t), Group(conds, t)
  PROVE  PickValue(name, conds) # {} /\ \A v \in PickValue(name, conds) : \A c \in About(name, conds) : Holds(c, v)
<1> DEFINE on == About(name, conds)
<1>1. PICK c0 \in on : TRUE BY AboutIs DEF Named
<1>2. name \in DOMAIN Attributes /\ DecidedValue(c0) /\ c0.attribute = name BY OneOf
<1>3. name \in DOMAIN t /\ \A c \in on : Holds(c, t[name])
  <2>1. \A c \in on : name \in DOMAIN t /\ Holds(c, t[name]) BY AboutIs DEF Group, Condition
  <2> QED BY <1>1, <2>1
<1>4. PICK v0 : v0 = t[name] OBVIOUS
<1>5. \A c \in on : Holds(c, v0) BY <1>3, <1>4
<1> HIDE DEF on
<1>6. CASE Attributes[name].type = "integer"
  <2>1. PickValue(name, conds) = PickInteger(Attributes[name], on) BY <1>6 DEF PickValue, on
  <2>2. Attributes[name].max \in Nat BY <1>2, LastIsNat
  <2>3. \A c \in on : NumberOK(c, Attributes[name].max) BY <1>6, NumbersOK DEF on
  <2>4. v0 \in {"number"} \X (0..Attributes[name].max) BY <1>2, <1>3, <1>4, <1>6 DEF TicketFormed
  <2>5. PICK n \in 0..Attributes[name].max : v0 = <<"number", n>> BY <2>4
  <2>6. \A c \in on : Holds(c, <<"number", n>>) BY <1>5, <2>5
  <2>7. PickInteger(Attributes[name], on) # {} BY <2>2, <2>3, <2>6, PicksNumber
  <2> QED BY <2>1, <2>2, <2>3, <2>7, NumberPicked DEF on
<1>7. CASE Attributes[name].type \in {"enum", "channel"}
  <2>1. PickValue(name, conds) = PickEnum(on) BY <1>7 DEF PickValue, on
  <2>2. (\A c \in on : WordOK(c)) /\ \E c \in on : c.operator = "eq" BY <1>1, <1>7, WordsOK DEF on
  <2>3. PickEnum(on) # {} BY <1>5, <2>2, PicksWord
  <2> QED BY <2>1, <2>2, <2>3, WordPicked DEF on
<1>8. CASE Attributes[name].type = "string_array"
  <2>1. PickValue(name, conds) = PickArray(on) BY <1>8 DEF PickValue, on
  <2>2. \A c \in on : TagOK(c) BY <1>8, TagsOK DEF on
  <2>3. Is(v0, "tags") BY <1>2, <1>3, <1>4, <1>8 DEF TicketFormed
  <2>4. PickArray(on) # {} BY <1>5, <2>2, <2>3, PicksTags
  <2> QED BY <1>5, <2>1, <2>2, <2>3, <2>4, TagsPicked DEF on
<1>9. Attributes[name].type # "string" BY <1>2 DEF DecidedValue
<1> QED BY <1>2, <1>6, <1>7, <1>8, <1>9, AttributesAre

LEMMA MadeIs ==
  ASSUME NEW conds, \A a \in Named(conds) : PickValue(a, conds) # {}
  PROVE  \E ctx \in Synthesised(conds) : DOMAIN ctx = Named(conds) /\ \A a \in Named(conds) : ctx[a] \in PickValue(a, conds)
<1>1. PICK pick : pick = [a \in Named(conds) |-> PickValue(a, conds)] OBVIOUS
<1>2. Synthesised(conds) = IF \E a \in Named(conds) : pick[a] = {} THEN {} ELSE {[a \in Named(conds) |-> CHOOSE v \in pick[a] : TRUE]}
  BY <1>1 DEF Synthesised, Named
<1>3. ~\E a \in Named(conds) : pick[a] = {} BY <1>1
<1>4. PICK ctx : ctx = [a \in Named(conds) |-> CHOOSE v \in pick[a] : TRUE] OBVIOUS
<1>5. ctx \in Synthesised(conds) BY <1>2, <1>3, <1>4
<1>6. \A a \in Named(conds) : ctx[a] \in PickValue(a, conds) BY <1>1, <1>3, <1>4
<1> QED BY <1>4, <1>5, <1>6

LEMMA GroupMatched ==
  ASSUME NEW conds, GroupValid(conds), NEW t, TicketFormed(t), Group(conds, t)
  PROVE  \E ctx \in Synthesised(conds) : Group(conds, ctx)
<1>1. PICK ctx \in Synthesised(conds) : DOMAIN ctx = Named(conds) /\ \A a \in Named(conds) : ctx[a] \in PickValue(a, conds)
  BY ValuePicked, MadeIs
<1>2. ASSUME NEW j \in DOMAIN conds PROVE Condition(conds[j], ctx)
  <2>1. PICK a : a = conds[j].attribute OBVIOUS
  <2>2. a \in Named(conds) BY <2>1 DEF Named
  <2>3. conds[j] \in About(a, conds) BY <2>1, AboutIs
  <2>4. Holds(conds[j], ctx[a]) BY <1>1, <2>2, <2>3, ValuePicked
  <2> QED BY <1>1, <2>1, <2>2, <2>4 DEF Condition
<1> QED BY <1>2 DEF Group
----------------------------------------------------------------------------
(* Two groups taken together.                                              *)
Together(g, h, gh) ==
  /\ gh \in Seq(ConditionsIs)
  /\ \A j \in DOMAIN gh : (\E k \in DOMAIN g : gh[j] = g[k]) \/ \E k \in DOMAIN h : gh[j] = h[k]
  /\ \A k \in DOMAIN g : \E j \in DOMAIN gh : gh[j] = g[k]
  /\ \A k \in DOMAIN h : \E j \in DOMAIN gh : gh[j] = h[k]
LEMMA TogetherIs ==
  ASSUME NEW g \in Seq(ConditionsIs), NEW h \in Seq(ConditionsIs)
  PROVE  Together(g, h, g \o h)
<1>1. PICK gh : gh = g \o h OBVIOUS
<1>2. /\ gh \in Seq(ConditionsIs) /\ Len(gh) = Len(g) + Len(h)
      /\ \A j \in 1..Len(g) + Len(h) : gh[j] = IF j <= Len(g) THEN g[j] ELSE h[j - Len(g)]
  BY <1>1, ConcatProperties
<1>3. DOMAIN g = 1..Len(g) /\ DOMAIN h = 1..Len(h) /\ DOMAIN gh = 1..Len(gh) /\ Len(g) \in Nat /\ Len(h) \in Nat
  BY <1>2, LenProperties
<1>4. ASSUME NEW j \in DOMAIN gh PROVE (\E k \in DOMAIN g : gh[j] = g[k]) \/ \E k \in DOMAIN h : gh[j] = h[k]
  <2>1. CASE j <= Len(g)
    <3>1. j \in DOMAIN g /\ gh[j] = g[j] BY <1>2, <1>3, <2>1
    <3> QED BY <3>1
  <2>2. CASE ~(j <= Len(g))
    <3>1. j - Len(g) \in DOMAIN h /\ gh[j] = h[j - Len(g)] BY <1>2, <1>3, <2>2
    <3> QED BY <3>1
  <2> QED BY <2>1, <2>2
<1>5. ASSUME NEW k \in DOMAIN g PROVE \E j \in DOMAIN gh : gh[j] = g[k]
  <2>1. k \in DOMAIN gh /\ gh[k] = g[k] BY <1>2, <1>3
  <2> QED BY <2>1
<1>6. ASSUME NEW k \in DOMAIN h PROVE \E j \in DOMAIN gh : gh[j] = h[k]
  <2>1. k + Len(g) \in DOMAIN gh /\ gh[k + Len(g)] = h[k] BY <1>2, <1>3
  <2> QED BY <2>1
<1>7. Together(g, h, gh) BY <1>2, <1>4, <1>5, <1>6 DEF Together
<1> QED BY <1>1, <1>7

LEMMA TogetherHold ==
  ASSUME NEW g \in Seq(ConditionsIs), NEW h \in Seq(ConditionsIs), NEW ctx
  PROVE  Group(g \o h, ctx) <=> Group(g, ctx) /\ Group(h, ctx)
<1>1. PICK gh : gh = g \o h OBVIOUS
<1>2. Together(g, h, gh) BY <1>1, TogetherIs
<1>3. Group(gh, ctx) <=> Group(g, ctx) /\ Group(h, ctx) BY <1>2 DEF Group, Together
<1> QED BY <1>1, <1>3

LEMMA TogetherValid ==
  ASSUME NEW g, GroupValid(g), NEW h, GroupValid(h)
  PROVE  GroupValid(g \o h)
<1>1. g \in Seq(ConditionsIs) /\ h \in Seq(ConditionsIs) BY DEF GroupValid
<1>2. PICK gh : gh = g \o h OBVIOUS
<1>a. Together(g, h, gh) BY <1>1, <1>2, TogetherIs
<1>3. /\ gh \in Seq(ConditionsIs)
      /\ \A j \in DOMAIN gh : (\E k \in DOMAIN g : gh[j] = g[k]) \/ \E k \in DOMAIN h : gh[j] = h[k]
      /\ \A k \in DOMAIN g : \E j \in DOMAIN gh : gh[j] = g[k]
      /\ \A k \in DOMAIN h : \E j \in DOMAIN gh : gh[j] = h[k]
  BY <1>a DEF Together
<1>4. \A j \in DOMAIN gh : ConditionValid(gh[j]) BY <1>3 DEF GroupValid
<1>5. Decided(gh)
  <2> SUFFICES ASSUME NEW j \in DOMAIN gh
      PROVE /\ DecidedValue(gh[j])
            /\ Attributes[gh[j].attribute].type \in {"enum", "channel"} =>
                 \E k \in DOMAIN gh : gh[k].attribute = gh[j].attribute /\ gh[k].operator = "eq"
    BY DEF Decided
  <2>1. CASE \E k \in DOMAIN g : gh[j] = g[k]
    <3>1. PICK k \in DOMAIN g : gh[j] = g[k] BY <2>1
    <3>2. /\ DecidedValue(g[k])
          /\ Attributes[g[k].attribute].type \in {"enum", "channel"} =>
               \E l \in DOMAIN g : g[l].attribute = g[k].attribute /\ g[l].operator = "eq"
      BY DEF GroupValid, Decided
    <3> QED BY <1>3, <3>1, <3>2
  <2>2. CASE \E k \in DOMAIN h : gh[j] = h[k]
    <3>1. PICK k \in DOMAIN h : gh[j] = h[k] BY <2>2
    <3>2. /\ DecidedValue(h[k])
          /\ Attributes[h[k].attribute].type \in {"enum", "channel"} =>
               \E l \in DOMAIN h : h[l].attribute = h[k].attribute /\ h[l].operator = "eq"
      BY DEF GroupValid, Decided
    <3> QED BY <1>3, <3>1, <3>2
  <2> QED BY <1>3, <2>1, <2>2
<1> QED BY <1>2, <1>3, <1>4, <1>5 DEF GroupValid
----------------------------------------------------------------------------
(* Whole trees, and the tickets there are.                                 *)
Judged(tree) == tree \in Trees /\ TreeValid(tree) /\ AllDecided(tree)
LEMMA GroupsAre ==
  ASSUME NEW tree, Judged(tree), NEW i \in DOMAIN tree
  PROVE  tree[i] \in Groups /\ GroupValid(tree[i])
<1>1. tree \in Seq(Seq(ConditionsIs)) BY TreesAssumption DEF Judged, WrittenTrees, ConditionsIs
<1>2. tree[i] \in Seq(ConditionsIs) BY <1>1, ElementOfSeq
<1>3. (\A j \in DOMAIN tree[i] : ConditionValid(tree[i][j])) /\ Decided(tree[i]) BY DEF Judged, TreeValid, AllDecided
<1>4. tree[i] \in Groups BY DEF Judged, Groups
<1> QED BY <1>2, <1>3, <1>4 DEF GroupValid

LEMMA Agree ==
  ASSUME NEW ctx, NEW t, \A a \in DOMAIN ctx : a \in DOMAIN t /\ t[a] = ctx[a], NEW tree, Evaluate(tree, ctx)
  PROVE  Evaluate(tree, t)
<1>1. PICK i \in DOMAIN tree : Group(tree[i], ctx) BY DEF Evaluate
<1>2. \A j \in DOMAIN tree[i] : Condition(tree[i][j], t) BY <1>1 DEF Group, Condition
<1> QED BY <1>2 DEF Evaluate, Group

LEMMA MatchableIs ==
  ASSUME NEW tree, Judged(tree)
  PROVE  Matchable(tree) <=> \E t \in Samples : Evaluate(tree, t)
<1>1. ASSUME Matchable(tree) PROVE \E t \in Samples : Evaluate(tree, t)
  <2>1. PICK i \in DOMAIN tree : \E ctx \in Synthesised(tree[i]) : Evaluate(tree, ctx) BY <1>1 DEF Matchable
  <2>2. PICK ctx \in Synthesised(tree[i]) : Evaluate(tree, ctx) BY <2>1
  <2>3. ThereIs(ctx) BY GroupsAre, SamplesAssumption
  <2>4. PICK t \in Samples : \A a \in DOMAIN ctx : a \in DOMAIN t /\ t[a] = ctx[a] BY <2>3 DEF ThereIs
  <2> QED BY <2>2, <2>4, Agree
<1>2. ASSUME NEW t \in Samples, Evaluate(tree, t) PROVE Matchable(tree)
  <2>1. PICK i \in DOMAIN tree : Group(tree[i], t) BY <1>2 DEF Evaluate
  <2>2. TicketFormed(t) /\ GroupValid(tree[i]) BY GroupsAre, SamplesAssumption
  <2>3. PICK ctx \in Synthesised(tree[i]) : Group(tree[i], ctx) BY <2>1, <2>2, GroupMatched
  <2>4. Evaluate(tree, ctx) BY <2>3 DEF Evaluate
  <2> QED BY <2>4 DEF Matchable
<1> QED BY <1>1, <1>2

LEMMA OverlapsIs ==
  ASSUME NEW a, Judged(a), NEW b, Judged(b)
  PROVE  Overlaps(a, b) <=> \E t \in Samples : Evaluate(a, t) /\ Evaluate(b, t)
<1>1. ASSUME Overlaps(a, b) PROVE \E t \in Samples : Evaluate(a, t) /\ Evaluate(b, t)
  <2>1. PICK i \in DOMAIN a, j \in DOMAIN b : \E ctx \in Synthesised(a[i] \o b[j]) : Evaluate(a, ctx) /\ Evaluate(b, ctx)
    BY <1>1 DEF Overlaps
  <2>2. PICK ctx \in Synthesised(a[i] \o b[j]) : Evaluate(a, ctx) /\ Evaluate(b, ctx) BY <2>1
  <2>3. ThereIs(ctx) BY GroupsAre, SamplesAssumption
  <2>4. PICK t \in Samples : \A x \in DOMAIN ctx : x \in DOMAIN t /\ t[x] = ctx[x] BY <2>3 DEF ThereIs
  <2> QED BY <2>2, <2>4, Agree
<1>2. ASSUME NEW t \in Samples, Evaluate(a, t), Evaluate(b, t) PROVE Overlaps(a, b)
  <2>1. PICK i \in DOMAIN a : Group(a[i], t) BY <1>2 DEF Evaluate
  <2>2. PICK j \in DOMAIN b : Group(b[j], t) BY <1>2 DEF Evaluate
  <2>3. TicketFormed(t) /\ GroupValid(a[i]) /\ GroupValid(b[j]) BY GroupsAre, SamplesAssumption
  <2>4. a[i] \in Seq(ConditionsIs) /\ b[j] \in Seq(ConditionsIs) BY <2>3 DEF GroupValid
  <2>5. GroupValid(a[i] \o b[j]) /\ Group(a[i] \o b[j], t) BY <2>1, <2>2, <2>3, <2>4, TogetherValid, TogetherHold
  <2>6. PICK ctx \in Synthesised(a[i] \o b[j]) : Group(a[i] \o b[j], ctx) BY <2>3, <2>5, GroupMatched
  <2>7. Group(a[i], ctx) /\ Group(b[j], ctx) BY <2>4, <2>6, TogetherHold
  <2>8. Evaluate(a, ctx) /\ Evaluate(b, ctx) BY <2>7 DEF Evaluate
  <2> QED BY <2>8 DEF Overlaps
<1> QED BY <1>1, <1>2
----------------------------------------------------------------------------
(* The inductive invariant: an answer given is the one for the rules saved.*)
RulesInv ==
  /\ \A o \in saved : o \in Trees /\ TreeValid(o)
  /\ told.answer.valid => told.tree \in Trees /\ told.answer = Candidate(told.tree, saved)

LEMMA SilentIs == ~Silent.answer.valid
BY DEF Silent, Candidate, TreeValid

LEMMA RulesInvHolds == RulesSpec => []RulesInv
<1>1. RulesInit => RulesInv BY SilentIs DEF RulesInit, RulesInv
<1>2. ASSUME RulesInv, [RulesNext]_ruleVars PROVE RulesInv'
  <2>1. ASSUME NEW tree \in Trees, SavesRule(tree) PROVE RulesInv'
    BY <1>2, <2>1, SilentIs DEF SavesRule, RulesInv
  <2>2. ASSUME NEW tree \in Trees, AsksMatch(tree) PROVE RulesInv'
    <3>1. told'.tree = tree /\ told'.answer = Candidate(tree, saved) /\ saved' = saved BY <2>2 DEF AsksMatch
    <3>2. PICK answer : answer = Candidate(tree, saved) OBVIOUS
    <3> QED BY <1>2, <3>1, <3>2 DEF RulesInv
  <2>3. CASE UNCHANGED ruleVars BY <1>2, <2>3 DEF ruleVars, RulesInv
  <2> QED BY <1>2, <2>1, <2>2, <2>3 DEF RulesNext
<1> QED BY <1>1, <1>2, PTL DEF RulesSpec

LEMMA CandidateIs ==
  ASSUME NEW tree, NEW others, Candidate(tree, others).valid
  PROVE  /\ TreeValid(tree) /\ Candidate(tree, others).matchable = Matchable(tree)
         /\ Candidate(tree, others).overlaps = {o \in others : TreeValid(o) /\ Overlaps(tree, o)}
BY DEF Candidate

THEOREM RulesTrue == RulesSpec => []AnswersTrue
<1>1. ASSUME RulesInv PROVE AnswersTrue
  <2>1. SUFFICES ASSUME told.answer.valid PROVE AnswersTrue BY DEF AnswersTrue, NeverMeansNever, OverlapsShared
  <2>2. told.tree \in Trees /\ told.answer = Candidate(told.tree, saved) BY <1>1, <2>1 DEF RulesInv
  <2>3. /\ TreeValid(told.tree) /\ told.answer.matchable = Matchable(told.tree)
        /\ told.answer.overlaps = {o \in saved : TreeValid(o) /\ Overlaps(told.tree, o)}
    BY <2>1, <2>2, CandidateIs
  <2>4. NeverMeansNever BY <2>2, <2>3, MatchableIs DEF NeverMeansNever, Judged
  <2>5. OverlapsShared
    <3> SUFFICES ASSUME NEW o \in saved, AllDecided(told.tree), AllDecided(o)
        PROVE  o \in told.answer.overlaps <=> \E t \in Samples : Evaluate(told.tree, t) /\ Evaluate(o, t)
      BY DEF OverlapsShared
    <3>1. o \in Trees /\ TreeValid(o) BY <1>1 DEF RulesInv
    <3>2. Judged(told.tree) /\ Judged(o) BY <2>2, <2>3, <3>1 DEF Judged
    <3> QED BY <2>3, <3>1, <3>2, OverlapsIs
  <2> QED BY <2>4, <2>5 DEF AnswersTrue
<1> QED BY <1>1, RulesInvHolds, PTL
----------------------------------------------------------------------------
(* What an agent is shown by pages and an admin told of his rules is true  *)
(* (CustomerOrdersService, RuleValidatorService).                          *)
THEOREM ShownCorrect == ShownSpec => []ShownSound
<1>1. OrdersSound /\ AnswersTrue => ShownSound BY DEF ShownSound
<1> QED BY <1>1, OrdersCorrect, RulesTrue, PTL DEF ShownSpec
=============================================================================
