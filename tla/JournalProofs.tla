---------------------------- MODULE JournalProofs ----------------------------
(***************************************************************************)
(* Proofs about Journal: the entry numbers, the documents and the ledger,  *)
(* and what no request does to what is posted, corrected or closed.        *)
(*                                                                         *)
(* The invariant is Kept.  Its parts are about the rows (Documented,       *)
(* Pointed), about the advisory lock (Numbered) and about what each        *)
(* request still knows of what it read (Meets, Reads): a request that      *)
(* writes on what it read is right as long as nothing was committed under  *)
(* it, and sess[s].lost says what was.                                     *)
(***************************************************************************)
EXTENDS Journal, FiniteSetTheorems, WellFoundedInduction, TLAPS

OnEntry == {"reverse", "postDraft", "discard", "void", "voidDocument"}

\* How far a request may have come.
Stages == {"idle", "decided", "number", "insert", "write"}

\* What a request is about, by its operation and how far it has come.
Shape(q) ==
  /\ q.pc = "idle" => q.op = "none"
  /\ q.pc = "decided" => q.op \in {"void", "reverse"}
  /\ q.pc \in {"number", "insert"} => q.op \in Creates
  /\ q.pc = "write" => q.op \in {"postDraft", "discard", "void", "voidDocument"}
  /\ q.op = "document" <=> q.doc \in Docs
  /\ q.op \in OnEntry <=> q.id \in Entries

\* What stays true of it whatever others commit.
Meets(q) ==
  /\ q.op = "document" => doc[q.doc] = "none"
  /\ q.op \in OnEntry => entry[q.id].status # "none"
  /\ q.op \in {"postDraft", "discard"} =>
       entry[q.id].doc = NoDoc /\ entry[q.id].reverses = NoEntry
  /\ q.op \in {"void", "reverse"} => entry[q.id].doc = NoDoc
  /\ q.op = "voidDocument" => entry[q.id].doc \in Docs

\* What it read and is still so, unless its lost says otherwise.
Reads(q) ==
  /\ "entry" \notin q.lost /\ q.op \in {"postDraft", "discard"} => entry[q.id].status = "draft"
  /\ "entry" \notin q.lost /\ q.op \in {"void", "reverse"} =>
       entry[q.id].status \in {"draft", "posted"} /\ Reversals(q.id) = {}
  /\ "close" \notin q.lost /\ q.pc \in {"number", "insert"} => ~Closed(q.date)
  /\ q.lost \cap {"close", "entry"} = {} /\ q.pc = "write" =>
       /\ q.op \in {"postDraft", "void"} => ~Closed(entry[q.id].date)
       /\ q.op = "voidDocument" => entry[q.id].status = "void" \/ ~Closed(entry[q.id].date)

Asked == \A s \in Sessions : Shape(sess[s]) /\ Meets(sess[s]) /\ Reads(sess[s])

\* No two requests write one document.
OwnDocument ==
  \A s, t \in Sessions : s # t /\ sess[s].doc \in Docs => sess[t].doc # sess[s].doc

\* A document and its entry stand and fall together, and it has but one entry.
Documented ==
  /\ \A e \in Entries : entry[e].doc \in Docs =>
       \/ entry[e].status = "posted" /\ doc[entry[e].doc] = "open"
       \/ entry[e].status = "void" /\ doc[entry[e].doc] = "void"
  /\ \A e, f \in Entries : entry[e].doc \in Docs /\ entry[e].doc = entry[f].doc => e = f
  /\ \A d \in Docs : doc[d] = "open" => \E e \in Entries : entry[e].doc = d

\* What points at an entry is on the books, and what it points at was once written
\* and is no document's.
Pointed ==
  \A e \in Entries : entry[e].reverses # NoEntry =>
    /\ entry[e].status \in {"posted", "void"}
    /\ entry[entry[e].reverses].status # "none"
    /\ entry[entry[e].reverses].doc = NoDoc

\* The request that has its number holds the lock, and its number is the highest.
Numbered ==
  \A s \in Sessions : Stage(s, "insert") =>
    lock = s /\ \A e \in Live : entry[e].number < sess[s].number

Bounded == \E n \in Nat : \A e \in Live : entry[e].number <= n

Finite == IsFiniteSet(Live)

Kept ==
  /\ JournalTypeOK
  /\ Asked
  /\ OwnDocument
  /\ Documented
  /\ Pointed
  /\ Numbered
  /\ Bounded
  /\ Finite

-----------------------------------------------------------------------------
(* Lemmas: the highest number, and what the steps are made of.              *)

(* A set of naturals that is not empty has a least element.                  *)
LEMMA LeastNatural ==
  ASSUME NEW T, T \subseteq Nat, T # {}
  PROVE  \E n \in T : \A m \in T : n <= m
<1> DEFINE R == OpToRel(<, Nat)
<1>1. IsWellFoundedOn(R, Nat)
  BY NatLessThanWellFounded
<1>2. \A m, n \in Nat : <<m, n>> \in R <=> m < n
  BY DEF OpToRel
<1> HIDE DEF R
<1>3. PICK n \in T : \A m \in T : ~ (<<m, n>> \in R)
  BY <1>1, WFMin
<1>4. n \in Nat /\ \A m \in T : m \in Nat
  BY <1>3
<1> SUFFICES ASSUME NEW m \in T PROVE n <= m
  BY <1>3
<1>5. ~ (m < n)
  BY <1>2, <1>3, <1>4, Zenon
<1> QED
  BY <1>4, <1>5

(* A bounded set of naturals that is not empty has a Max.                    *)
LEMMA MaxOfBounded ==
  ASSUME NEW S, S \subseteq Nat, S # {}, NEW n \in Nat, \A x \in S : x <= n
  PROVE  Max(S) \in S /\ \A x \in S : x <= Max(S)
<1> DEFINE T == {k \in Nat : \A x \in S : x <= k}
<1>0. \A x \in S : x \in Nat
  OBVIOUS
<1>1. T \subseteq Nat /\ n \in T
  OBVIOUS
<1>2. PICK k \in T : \A m \in T : k <= m
  BY <1>1, LeastNatural
<1>3. k \in Nat /\ \A x \in S : x <= k
  BY <1>2
<1>4. k \in S
  <2> SUFFICES ASSUME k \notin S PROVE FALSE
    OBVIOUS
  <2>1. PICK x \in S : TRUE
    OBVIOUS
  <2>2. k - 1 \in Nat
    BY <1>0, <1>3, <2>1
  <2>3. \A y \in S : y <= k - 1
    BY <1>0, <1>3
  <2>4. k - 1 \in T
    BY <2>2, <2>3
  <2> QED
    BY <1>2, <1>3, <2>4
<1>5. \E m \in S : \A x \in S : m >= x
  BY <1>0, <1>3, <1>4
<1>6. Max(S) \in S /\ \A x \in S : Max(S) >= x
  BY <1>5 DEF Max
<1> QED
  BY <1>0, <1>6

(* MAX(entry_number): no committed entry has a higher number.                *)
LEMMA HighestNumber ==
  ASSUME JournalTypeOK, Bounded
  PROVE  MaxNumber \in Nat /\ \A e \in Live : entry[e].number <= MaxNumber
<1> DEFINE S == {entry[e].number : e \in Live} \cup {0}
<1>1. \A e \in Live : entry[e].number \in Nat
  BY DEF JournalTypeOK, Live, Row
<1>2. PICK n \in Nat : \A e \in Live : entry[e].number <= n
  BY DEF Bounded
<1>3. S \subseteq Nat /\ S # {}
  BY <1>1
<1>4. \A x \in S : x <= n
  BY <1>2
<1>5. Max(S) \in S /\ \A x \in S : x <= Max(S)
  <2> HIDE DEF S
  <2> QED
    BY <1>2, <1>3, <1>4, MaxOfBounded
<1>6. MaxNumber = Max(S)
  BY DEF MaxNumber
<1> QED
  BY <1>3, <1>5, <1>6

\* A commit on e leaves every other entry that exists as it was, for those who read it.
Frame(e) ==
  \A f \in Entries : entry[f].status # "none" =>
    /\ entry'[f].status # "none"
    /\ entry'[f].doc = entry[f].doc
    /\ entry[f].reverses = NoEntry => entry'[f].reverses = NoEntry
    /\ f # e =>
         /\ entry'[f].status = entry[f].status
         /\ entry'[f].date = entry[f].date
         /\ Reversals(f) = {} => Reversals(f)' = {}

\* Request t goes on with what it had, and may learn that something was lost.
Carries(t) ==
  /\ sess'[t].op = sess[t].op
  /\ sess'[t].pc = sess[t].pc
  /\ sess'[t].id = sess[t].id
  /\ sess'[t].doc = sess[t].doc
  /\ sess'[t].date = sess[t].date
  /\ sess'[t].number = sess[t].number
  /\ sess[t].lost \subseteq sess'[t].lost

(* A request that only waits knows what it knew, if what is committed under  *)
(* it is noted in its lost.                                                  *)
LEMMA GoesOn ==
  ASSUME JournalTypeOK, NEW t \in Sessions, NEW e,
         Shape(sess[t]), Meets(sess[t]), Reads(sess[t]), Carries(t), Frame(e),
         sess[t].id = e /\ e # NoEntry => "entry" \in sess'[t].lost,
         sess[t].op = "document" => doc'[sess[t].doc] = "none",
         \A d \in Dates :
           sess[t].pc \in {"number", "insert", "write"} /\ d = CheckedDay(t)
             /\ Closed(d)' /\ ~Closed(d) => "close" \in sess'[t].lost
  PROVE  Shape(sess[t])' /\ Meets(sess[t])' /\ Reads(sess[t])'
<1>1. PICK u, v : u = sess[t] /\ v = sess'[t]
  OBVIOUS
<1>2. u \in Session
  BY <1>1 DEF JournalTypeOK
<1>3. /\ v.op = u.op /\ v.pc = u.pc /\ v.id = u.id /\ v.doc = u.doc /\ v.date = u.date
      /\ u.lost \subseteq v.lost
  BY <1>1 DEF Carries
<1>4. Shape(u) /\ Meets(u) /\ Reads(u)
  BY <1>1, Zenon
<1>5. Shape(v)
  BY <1>3, <1>4 DEF Shape
<1>6. u.op \in OnEntry => u.id \in Entries /\ u.id # NoEntry /\ entry[u.id].status # "none"
  BY <1>4, JournalAssumption DEF Shape, Meets
<1>7. Meets(v)'
  <2>1. u.op = "document" => doc'[v.doc] = "none"
    BY <1>1, <1>3
  <2>2. u.op \in OnEntry =>
          /\ entry'[u.id].status # "none"
          /\ entry'[u.id].doc = entry[u.id].doc
          /\ entry[u.id].reverses = NoEntry => entry'[u.id].reverses = NoEntry
    BY <1>6 DEF Frame
  <2> QED
    BY <1>3, <1>4, <2>1, <2>2 DEF Meets, OnEntry
<1>8. "entry" \notin v.lost /\ u.op \in OnEntry =>
        /\ "entry" \notin u.lost
        /\ entry'[u.id].status = entry[u.id].status
        /\ entry'[u.id].date = entry[u.id].date
        /\ Reversals(u.id) = {} => Reversals(u.id)' = {}
  <2>1. "entry" \notin v.lost /\ u.op \in OnEntry => u.id # e
    BY <1>1, <1>6
  <2> QED
    BY <1>3, <1>6, <2>1 DEF Frame
<1>9. ASSUME "close" \notin v.lost, NEW d \in Dates, ~Closed(d),
             u.pc \in {"number", "insert", "write"},
             d = IF u.pc = "write" THEN entry[u.id].date ELSE u.date
      PROVE  ~Closed(d)'
  <2>1. d = CheckedDay(t)
    BY <1>1, <1>9 DEF CheckedDay
  <2> QED
    BY <1>1, <1>9, <2>1
<1>10. Reads(v)'
  <2>1. "entry" \notin v.lost /\ v.op \in {"postDraft", "discard"} =>
          entry'[v.id].status = "draft"
    BY <1>3, <1>4, <1>8 DEF Reads, OnEntry
  <2>2. "entry" \notin v.lost /\ v.op \in {"void", "reverse"} =>
          entry'[v.id].status \in {"draft", "posted"} /\ Reversals(v.id)' = {}
    BY <1>3, <1>4, <1>8 DEF Reads, OnEntry
  <2>3. "close" \notin v.lost /\ v.pc \in {"number", "insert"} => ~Closed(v.date)'
    <3>1. u.date \in Dates
      BY <1>2 DEF Session
    <3> QED
      BY <1>3, <1>4, <1>9, <3>1 DEF Reads
  <2>4. ASSUME v.lost \cap {"close", "entry"} = {}, v.pc = "write"
        PROVE  (/\ v.op \in {"postDraft", "void"} => ~Closed(entry[v.id].date)
                /\ v.op = "voidDocument" =>
                     entry[v.id].status = "void" \/ ~Closed(entry[v.id].date))'
    <3>1. u.op \in OnEntry /\ u.id \in Entries
      BY <1>3, <1>4, <1>6, <2>4 DEF Shape, OnEntry
    <3>2. PICK d \in Dates : d = entry[u.id].date
      BY <3>1 DEF JournalTypeOK, Row
    <3>3. entry'[v.id].status = entry[u.id].status /\ entry'[v.id].date = d
      BY <1>3, <1>8, <2>4, <3>1, <3>2
    <3>4. ~Closed(d) => ~Closed(d)'
      BY <1>3, <1>9, <2>4, <3>2
    <3>5. \/ u.op \in {"postDraft", "void"} /\ ~Closed(d)
          \/ u.op = "voidDocument" /\ (entry[u.id].status = "void" \/ ~Closed(d))
          \/ u.op \notin {"postDraft", "void", "voidDocument"}
      <4>1. u.lost \cap {"close", "entry"} = {} /\ u.pc = "write"
        BY <1>3, <2>4
      <4> QED
        BY <1>4, <3>2, <4>1 DEF Reads
    <3>6. ~Closed(d)' => ~Closed(entry[v.id].date)'
      BY <3>3 DEF Closed
    <3> QED
      BY <1>3, <3>3, <3>4, <3>5, <3>6
  <2> QED
    BY <2>1, <2>2, <2>3, <2>4 DEF Reads
<1>11. Shape(sess[t])'
  BY <1>1, <1>5 DEF Shape
<1>12. Meets(sess[t])'
  BY <1>1, <1>7 DEF Meets
<1>13. Reads(sess[t])'
  BY <1>1, <1>10 DEF Reads, Reversals, Closed
<1> QED
  BY <1>11, <1>12, <1>13

(* A request that takes a step of its own and writes nothing yet: its new    *)
(* record must be in order, the rest stays.                                  *)
LEMMA Entering ==
  ASSUME Kept, NEW s \in Sessions, NEW q \in Session,
         Shape(q), Meets(q), Reads(q),
         q.doc \in Docs => \A t \in Sessions \ {s} : sess[t].doc # q.doc,
         Enter(s, q), UNCHANGED <<entry, period, doc>>,
         lock' \in Sessions \cup {NoSession}, Numbered'
  PROVE  Kept'
<1>1. sess' = [sess EXCEPT ![s] = q] /\ sess \in [Sessions -> Session]
  BY DEF Enter, Kept, JournalTypeOK
<1>2. sess'[s] = q /\ \A t \in Sessions \ {s} : sess'[t] = sess[t]
  BY <1>1
<1>3. JournalTypeOK'
  BY <1>1 DEF Kept, JournalTypeOK
<1>4. Live' = Live /\ (\A e \in Entries : Reversals(e)' = Reversals(e))
        /\ (\A d \in Dates : Closed(d)' = Closed(d))
  BY DEF Live, Reversals, Closed
<1>5. Asked'
  <2> SUFFICES ASSUME NEW t \in Sessions
               PROVE  (Shape(sess[t]) /\ Meets(sess[t]) /\ Reads(sess[t]))'
    BY DEF Asked
  <2>1. PICK v : v = sess'[t]
    OBVIOUS
  <2>2. Shape(v) /\ Meets(v) /\ Reads(v)
    <3>1. CASE t = s
      BY <1>2, <2>1, <3>1
    <3>2. CASE t # s
      <4>1. v = sess[t]
        BY <1>2, <2>1, <3>2
      <4>2. Shape(sess[t]) /\ Meets(sess[t]) /\ Reads(sess[t])
        BY DEF Kept, Asked
      <4> QED
        BY <4>1, <4>2 DEF Shape, Meets, Reads, Reversals, Closed
    <3> QED
      BY <3>1, <3>2
  <2> QED
    BY <2>1, <2>2 DEF Shape, Meets, Reads, Reversals, Closed
<1>6. OwnDocument'
  <2> SUFFICES ASSUME NEW t \in Sessions, NEW u \in Sessions, t # u, sess'[t].doc \in Docs
               PROVE  sess'[u].doc # sess'[t].doc
    BY DEF OwnDocument
  <2> QED
    BY <1>2 DEF Kept, OwnDocument
<1>7. (Documented /\ Pointed /\ Bounded /\ Finite)'
  BY <1>4 DEF Kept, Documented, Pointed, Bounded, Finite
<1> QED
  BY <1>3, <1>5, <1>6, <1>7 DEF Kept

(* The same where the request takes no number and the lock stays or is let go. *)
LEMMA Entered ==
  ASSUME Kept, NEW s \in Sessions, NEW q \in Session,
         Shape(q), Meets(q), Reads(q), q.pc # "insert",
         q.doc \in Docs => \A t \in Sessions \ {s} : sess[t].doc # q.doc,
         Enter(s, q), UNCHANGED <<entry, period, doc>>,
         lock' = lock \/ (lock = s /\ lock' = NoSession)
  PROVE  Kept'
<1>1. sess'[s] = q /\ \A t \in Sessions \ {s} : sess'[t] = sess[t]
  BY DEF Enter, Kept, JournalTypeOK
<1>2. Live' = Live
  BY DEF Live
<1>3. Numbered'
  <2> SUFFICES ASSUME NEW t \in Sessions, sess'[t].pc = "insert"
               PROVE  lock' = t /\ \A e \in Live' : entry'[e].number < sess'[t].number
    BY DEF Numbered, Stage
  <2>1. t # s /\ sess'[t] = sess[t]
    BY <1>1
  <2> QED
    BY <1>2, <2>1 DEF Kept, Numbered, Stage
<1>4. lock' \in Sessions \cup {NoSession}
  BY DEF Kept, JournalTypeOK
<1> QED
  BY <1>3, <1>4, Entering

-----------------------------------------------------------------------------
(* The requests that only read.                                             *)

LEMMA KeptInit == Init => Kept
<1> SUFFICES ASSUME Init PROVE Kept
  OBVIOUS
<1> USE JournalAssumption DEF Init
<1>1. JournalTypeOK
  BY DEF JournalTypeOK, Row, NoRow, Session, Idle
<1>2. Asked
  BY DEF Asked, Shape, Meets, Reads, Idle, Creates, OnEntry
<1>3. OwnDocument /\ Numbered
  BY DEF OwnDocument, Numbered, Idle, Stage
<1>4. Documented /\ Pointed
  BY DEF Documented, Pointed, NoRow
<1>5. Live = {}
  BY DEF Live, NoRow
<1>6. Bounded /\ Finite
  BY <1>5, FS_EmptySet DEF Bounded, Finite
<1> QED
  BY <1>1, <1>2, <1>3, <1>4, <1>6 DEF Kept

(* What a fresh request carries.                                             *)
LEMMA RequestIs ==
  ASSUME NEW op \in Ops, NEW pc \in Stages, NEW e \in Entries \cup {NoEntry}
  PROVE  \E r \in Session : /\ r = Request(op, pc, e)
                            /\ r.op = op /\ r.pc = pc /\ r.id = e
                            /\ r.doc = NoDoc /\ r.lost = {}
<1> USE JournalAssumption
<1>1. Idle \in Session /\ Idle.doc = NoDoc /\ Idle.lost = {}
  BY DEF Idle, Session
<1> DEFINE a == [Idle EXCEPT !.op = op]
           b == [a EXCEPT !.pc = pc]
           c == [b EXCEPT !.id = e]
<1>2. a \in Session /\ a.op = op /\ a.doc = NoDoc /\ a.lost = {}
  BY <1>1 DEF Session
<1> HIDE DEF a
<1>3. b \in Session /\ b.op = op /\ b.pc = pc /\ b.doc = NoDoc /\ b.lost = {}
  BY <1>2 DEF Session, Stages
<1> HIDE DEF b
<1>4. c \in Session /\ c.op = op /\ c.pc = pc /\ c.id = e /\ c.doc = NoDoc /\ c.lost = {}
  BY <1>3 DEF Session
<1>5. Request(op, pc, e) = c
  BY DEF Request, a, b, c
<1> HIDE DEF c
<1> QED
  BY <1>4, <1>5

LEMMA KeptBeginCreate ==
  ASSUME Kept, NEW s \in Sessions, BeginCreate(s)
  PROVE  Kept'
<1> USE JournalAssumption
<1>1. PICK op \in {"post", "draft"}, d \in EntryDates :
        ~Closed(d) /\ Enter(s, [Request(op, "number", NoEntry) EXCEPT !.date = d])
  BY DEF BeginCreate
<1> DEFINE q == [Request(op, "number", NoEntry) EXCEPT !.date = d]
<1>2. /\ Request(op, "number", NoEntry) \in Session
      /\ q.op = op /\ q.pc = "number" /\ q.doc = NoDoc /\ q.id = NoEntry
      /\ q.lost = {} /\ q.date = d
  <2>1. PICK r \in Session : /\ r = Request(op, "number", NoEntry)
                             /\ r.op = op /\ r.pc = "number" /\ r.id = NoEntry
                             /\ r.doc = NoDoc /\ r.lost = {}
    <3>1. op \in Ops /\ "number" \in Stages
      BY DEF Ops, Creates, Stages
    <3> QED
      BY <3>1, RequestIs
  <2> QED
    BY <2>1 DEF Session
<1>3. q \in Session
  BY <1>2 DEF Session
<1>4. Enter(s, q) /\ UNCHANGED <<entry, period, doc, lock>>
  BY <1>1 DEF BeginCreate
<1> HIDE DEF q
<1>5. Shape(q) /\ Meets(q) /\ Reads(q)
  BY <1>1, <1>2 DEF Shape, Meets, Reads, Creates, OnEntry
<1> QED
  BY <1>2, <1>3, <1>4, <1>5, Entered

LEMMA KeptBeginDocument ==
  ASSUME Kept, NEW s \in Sessions, BeginDocument(s)
  PROVE  Kept'
<1> USE JournalAssumption
<1>1. PICK d \in Docs, date \in EntryDates :
        /\ doc[d] = "none" /\ \A t \in Sessions : sess[t].doc # d
        /\ ~Closed(date)
        /\ Enter(s, [Request("document", "number", NoEntry) EXCEPT !.doc = d, !.date = date])
  BY DEF BeginDocument
<1> DEFINE q == [Request("document", "number", NoEntry) EXCEPT !.doc = d, !.date = date]
<1>2. PICK r \in Session : /\ r = Request("document", "number", NoEntry)
                           /\ r.op = "document" /\ r.pc = "number" /\ r.id = NoEntry
                           /\ r.lost = {}
  <2>1. "document" \in Ops /\ "number" \in Stages
    BY DEF Ops, Creates, Stages
  <2> QED
    BY <2>1, RequestIs
<1>3. /\ q \in Session /\ q.op = "document" /\ q.pc = "number" /\ q.doc = d
      /\ q.id = NoEntry /\ q.lost = {} /\ q.date = date
  BY <1>2 DEF Session
<1>4. Enter(s, q) /\ UNCHANGED <<entry, period, doc, lock>>
  BY <1>1 DEF BeginDocument
<1> HIDE DEF q
<1>5. Shape(q) /\ Meets(q) /\ Reads(q)
  BY <1>1, <1>3 DEF Shape, Meets, Reads, Creates, OnEntry
<1> QED
  BY <1>1, <1>2, <1>3, <1>4, <1>5, Entered

LEMMA KeptBeginDraftWrite ==
  ASSUME Kept, NEW s \in Sessions, BeginPostDraft(s) \/ BeginDiscard(s)
  PROVE  Kept'
<1> USE JournalAssumption
<1>1. PICK op \in {"postDraft", "discard"}, e \in Entries :
        /\ entry[e].status = "draft" /\ (op = "postDraft" => ~Closed(entry[e].date))
        /\ Enter(s, Request(op, "write", e))
  BY DEF BeginPostDraft, BeginDiscard
<1> DEFINE q == Request(op, "write", e)
<1>2. /\ q \in Session /\ q.op = op /\ q.pc = "write" /\ q.id = e
      /\ q.doc = NoDoc /\ q.lost = {}
  <2>1. op \in Ops /\ "write" \in Stages
    BY DEF Ops, Stages
  <2>2. PICK r \in Session : /\ r = Request(op, "write", e)
                             /\ r.op = op /\ r.pc = "write" /\ r.id = e
                             /\ r.doc = NoDoc /\ r.lost = {}
    BY <2>1, RequestIs
  <2> QED
    BY <2>2
<1>3. q \in Session
  BY <1>2
<1>4. Enter(s, q) /\ UNCHANGED <<entry, period, doc, lock>>
  BY <1>1 DEF BeginPostDraft, BeginDiscard
<1> HIDE DEF q
<1>5. entry[e].doc = NoDoc /\ entry[e].reverses = NoEntry
  BY <1>1 DEF Kept, JournalTypeOK, Row, Documented, Pointed
<1>6. Shape(q) /\ Meets(q) /\ Reads(q)
  BY <1>1, <1>2, <1>5 DEF Shape, Meets, Reads, Creates, OnEntry
<1> QED
  BY <1>2, <1>3, <1>4, <1>6, Entered

LEMMA KeptBeginVoidDocument ==
  ASSUME Kept, NEW s \in Sessions, BeginVoidDocument(s)
  PROVE  Kept'
<1> USE JournalAssumption
<1>1. PICK e \in Live :
        /\ entry[e].doc # NoDoc
        /\ (entry[e].status = "void" \/ ~Closed(entry[e].date))
        /\ Enter(s, Request("voidDocument", "write", e))
  BY DEF BeginVoidDocument
<1>2. e \in Entries /\ entry[e].status # "none" /\ entry[e].doc \in Docs
  BY <1>1 DEF Live, Kept, JournalTypeOK, Row
<1> DEFINE q == Request("voidDocument", "write", e)
<1>3. /\ q \in Session /\ q.op = "voidDocument" /\ q.pc = "write" /\ q.id = e
      /\ q.doc = NoDoc /\ q.lost = {}
  <2>1. "voidDocument" \in Ops /\ "write" \in Stages
    BY DEF Ops, Stages
  <2>2. PICK r \in Session : /\ r = Request("voidDocument", "write", e)
                             /\ r.op = "voidDocument" /\ r.pc = "write" /\ r.id = e
                             /\ r.doc = NoDoc /\ r.lost = {}
    BY <1>2, <2>1, RequestIs
  <2> QED
    BY <2>2
<1>4. q \in Session
  BY <1>3
<1>5. Enter(s, q) /\ UNCHANGED <<entry, period, doc, lock>>
  BY <1>1 DEF BeginVoidDocument
<1> HIDE DEF q
<1>6. Shape(q) /\ Meets(q) /\ Reads(q)
  BY <1>1, <1>2, <1>3 DEF Shape, Meets, Reads, Creates, OnEntry
<1> QED
  BY <1>3, <1>4, <1>5, <1>6, Entered

LEMMA KeptBeginCorrect ==
  ASSUME Kept, NEW s \in Sessions, BeginCorrect(s)
  PROVE  Kept'
<1> USE JournalAssumption
<1>1. PICK e \in Live, method \in {"void", "reverse"} :
        /\ MayUse(e, method)
        /\ Enter(s, [Request(method, "decided", e) EXCEPT !.date = ReversalDate(e)])
  BY DEF BeginCorrect
<1>2. /\ e \in Entries /\ entry[e].status \in {"draft", "posted"} /\ entry[e].doc = NoDoc
      /\ Reversals(e) = {}
  BY <1>1 DEF Live, MayUse, IsDerived
<1>3. ReversalDate(e) \in Dates
  BY <1>2 DEF ReversalDate, Kept, JournalTypeOK, Row
<1> DEFINE q == [Request(method, "decided", e) EXCEPT !.date = ReversalDate(e)]
<1>4. PICK r \in Session : /\ r = Request(method, "decided", e)
                           /\ r.op = method /\ r.pc = "decided" /\ r.id = e
                           /\ r.doc = NoDoc /\ r.lost = {}
  <2>1. method \in Ops /\ "decided" \in Stages
    BY DEF Ops, Creates, Stages
  <2> QED
    BY <1>2, <2>1, RequestIs
<1>5. /\ q \in Session /\ q.op = method /\ q.pc = "decided" /\ q.id = e
      /\ q.doc = NoDoc /\ q.lost = {}
  BY <1>3, <1>4 DEF Session
<1>6. Enter(s, q) /\ UNCHANGED <<entry, period, doc, lock>>
  BY <1>1 DEF BeginCorrect
<1> HIDE DEF q
<1>7. Shape(q) /\ Meets(q) /\ Reads(q)
  BY <1>1, <1>2, <1>5 DEF Shape, Meets, Reads, Creates, OnEntry
<1> QED
  BY <1>5, <1>6, <1>7, Entered

(* A request that ends without a word leaves nothing to keep.                *)
LEMMA IdleIsSound ==
  Idle \in Session /\ Shape(Idle) /\ Meets(Idle) /\ Reads(Idle)
    /\ Idle.pc = "idle" /\ Idle.doc = NoDoc /\ Idle.id = NoEntry
BY JournalAssumption DEF Idle, Session, Ops, Creates, Shape, Meets, Reads, OnEntry

LEMMA KeptReadToVoid ==
  ASSUME Kept, NEW s \in Sessions, ReadToVoid(s)
  PROVE  Kept'
<1> USE JournalAssumption
<1>1. PICK e, lost : e = sess[s].id /\ lost = sess[s].lost
  OBVIOUS
<1>2. /\ sess[s].op = "void" /\ e \in Entries /\ entry[e].status # "none"
      /\ entry[e].doc = NoDoc /\ lost \in SUBSET {"close", "entry"}
      /\ "entry" \notin lost => Reversals(e) = {}
  BY <1>1 DEF ReadToVoid, Kept, Asked, JournalTypeOK, Session, Shape, Meets, Reads, OnEntry
<1> DEFINE q == [Request("void", "write", e) EXCEPT !.lost = lost]
<1>3. CASE e \in Live /\ entry[e].status # "void" /\ ~Closed(entry[e].date)
  <2>0. entry[e].status \in {"draft", "posted"}
    BY <1>3 DEF Live
  <2>1. Enter(s, q) /\ UNCHANGED <<entry, period, doc, lock>>
    BY <1>1, <1>3 DEF ReadToVoid
  <2>2. PICK r \in Session : /\ r = Request("void", "write", e)
                             /\ r.op = "void" /\ r.pc = "write" /\ r.id = e /\ r.doc = NoDoc
    <3>1. "void" \in Ops /\ "write" \in Stages
      BY DEF Ops, Stages
    <3> QED
      BY <1>2, <3>1, RequestIs
  <2>3. /\ q \in Session /\ q.op = "void" /\ q.pc = "write" /\ q.id = e
        /\ q.doc = NoDoc /\ q.lost = lost
    BY <1>2, <2>2 DEF Session
  <2> HIDE DEF q
  <2>4. Shape(q) /\ Meets(q) /\ Reads(q)
    BY <1>2, <1>3, <2>0, <2>3 DEF Shape, Meets, Reads, Creates, OnEntry
  <2> QED
    BY <2>1, <2>3, <2>4, Entered
<1>4. CASE ~(e \in Live /\ entry[e].status # "void" /\ ~Closed(entry[e].date))
  <2>1. Enter(s, Idle) /\ UNCHANGED <<entry, period, doc, lock>>
    BY <1>1, <1>4 DEF ReadToVoid
  <2> QED
    BY <2>1, IdleIsSound, Entered
<1> QED
  BY <1>3, <1>4

LEMMA KeptReadToReverse ==
  ASSUME Kept, NEW s \in Sessions, ReadToReverse(s)
  PROVE  Kept'
<1> USE JournalAssumption
<1>1. CASE entry[sess[s].id].status = "posted" /\ ~Closed(sess[s].date)
  <2>1. PICK u : u = sess[s]
    OBVIOUS
  <2> DEFINE q == [u EXCEPT !.pc = "number"]
  <2>2. Enter(s, q) /\ UNCHANGED <<entry, period, doc, lock>>
    BY <1>1, <2>1 DEF ReadToReverse
  <2>3. u \in Session /\ u.op = "reverse" /\ Shape(u) /\ Meets(u) /\ Reads(u)
    BY <2>1 DEF ReadToReverse, Kept, Asked, JournalTypeOK
  <2>4. q \in Session /\ q.pc = "number" /\ q.op = "reverse" /\ q.id = u.id /\ q.doc = u.doc
          /\ q.date = u.date /\ q.lost = u.lost
    BY <2>3 DEF Session
  <2>5. ~Closed(u.date)
    BY <1>1, <2>1
  <2> HIDE DEF q
  <2>6. Shape(q) /\ Meets(q) /\ Reads(q)
    BY <2>3, <2>4, <2>5 DEF Shape, Meets, Reads, Creates, OnEntry
  <2>7. q.doc \notin Docs
    BY <2>4, <2>6 DEF Shape
  <2> QED
    BY <2>2, <2>4, <2>6, <2>7, Entered
<1>2. CASE ~(entry[sess[s].id].status = "posted" /\ ~Closed(sess[s].date))
  <2>1. Enter(s, Idle) /\ UNCHANGED <<entry, period, doc, lock>>
    BY <1>2 DEF ReadToReverse
  <2> QED
    BY <2>1, IdleIsSound, Entered
<1> QED
  BY <1>1, <1>2

LEMMA KeptRollBack ==
  ASSUME Kept, NEW s \in Sessions, RollBack(s)
  PROVE  Kept'
BY JournalAssumption, IdleIsSound, Entered DEF RollBack, Leave

LEMMA KeptTakeNumber ==
  ASSUME Kept, NEW s \in Sessions, TakeNumber(s)
  PROVE  Kept'
<1>1. PICK u : u = sess[s]
  OBVIOUS
<1>2. u \in Session /\ u.pc = "number" /\ Shape(u) /\ Meets(u) /\ Reads(u)
  BY <1>1 DEF TakeNumber, Stage, Kept, Asked, JournalTypeOK
<1>3. PICK m \in Nat : m = MaxNumber /\ \A e \in Live : entry[e].number <= m
  BY HighestNumber DEF Kept
<1> DEFINE w == [u EXCEPT !.pc = "insert"]
           q == [w EXCEPT !.number = m + 1]
<1>4. /\ w \in Session /\ w.pc = "insert" /\ w.op = u.op /\ w.id = u.id /\ w.doc = u.doc
      /\ w.date = u.date /\ w.lost = u.lost
  BY <1>2 DEF Session
<1>5. Enter(s, q)
  BY <1>1, <1>3 DEF TakeNumber
<1> HIDE DEF w
<1>6. m + 1 \in Nat
  BY <1>3
<1>7. /\ q \in Session /\ q.pc = "insert" /\ q.op = u.op /\ q.id = u.id /\ q.doc = u.doc
      /\ q.date = u.date /\ q.lost = u.lost /\ q.number = m + 1
  BY <1>4, <1>6 DEF Session
<1> HIDE DEF q
<1>8. Shape(q) /\ Meets(q) /\ Reads(q)
  BY <1>2, <1>7 DEF Shape, Meets, Reads, OnEntry
<1>9. \A t \in Sessions \ {s} : q.doc \in Docs => sess[t].doc # q.doc
  BY <1>1, <1>7 DEF Kept, OwnDocument
<1>10. sess'[s] = q /\ \A t \in Sessions \ {s} : sess'[t] = sess[t]
  BY <1>5 DEF Enter, Kept, JournalTypeOK
<1>11. lock = NoSession /\ lock' = s /\ UNCHANGED <<entry, period, doc>>
  BY DEF TakeNumber
<1>12. \A t \in Sessions : sess[t].pc # "insert"
  BY <1>11, JournalAssumption DEF Kept, Numbered, Stage
<1>13. Numbered'
  <2> SUFFICES ASSUME NEW t \in Sessions, sess'[t].pc = "insert"
               PROVE  lock' = t /\ \A e \in Live' : entry'[e].number < sess'[t].number
    BY DEF Numbered, Stage
  <2>1. t = s
    BY <1>10, <1>12
  <2>2. Live' = Live
    BY <1>11 DEF Live
  <2>3. ASSUME NEW e \in Live PROVE entry[e].number < m + 1
    BY <1>3, <2>3 DEF Live, Kept, JournalTypeOK, Row
  <2> QED
    BY <1>7, <1>10, <1>11, <2>1, <2>2, <2>3
<1> QED
  BY <1>5, <1>7, <1>8, <1>9, <1>11, <1>13, Entering

-----------------------------------------------------------------------------
(* The requests that write.                                                 *)

(* What a commit on entry e does to the requests: the one that commits is    *)
(* done, those about e learn it, the others go on.                           *)
LEMMA Committed ==
  ASSUME Kept, NEW s \in Sessions, NEW e \in Entries \cup {NoEntry},
         Commit(s, e), UNCHANGED period, Frame(e),
         entry' \in [Entries -> Row], doc' \in [Docs -> {"none", "open", "void"}],
         \A t \in Sessions \ {s} : sess[t].op = "document" => doc'[sess[t].doc] = "none",
         \A t \in Sessions \ {s} : Stage(t, "insert") =>
           \A f \in Live' : entry'[f].number < sess[t].number
  PROVE  JournalTypeOK' /\ Asked' /\ OwnDocument' /\ Numbered'
<1>1. sess'[s] = Idle
  BY DEF Commit
<1>2. ASSUME NEW t \in Sessions, t # s
      PROVE  /\ sess'[t] \in Session
             /\ Carries(t)
             /\ sess[t].id = e /\ e # NoEntry => "entry" \in sess'[t].lost
  <2>1. sess[t] \in Session
    BY DEF Kept, JournalTypeOK
  <2>2. CASE sess[t].id = e /\ e # NoEntry
    <3>1. sess'[t] = [sess[t] EXCEPT !.lost = @ \cup {"entry"}]
      BY <1>2, <2>2 DEF Commit
    <3> QED
      BY <2>1, <3>1 DEF Carries, Session
  <2>3. CASE ~(sess[t].id = e /\ e # NoEntry)
    <3>1. sess'[t] = sess[t]
      BY <1>2, <2>3 DEF Commit
    <3> QED
      BY <2>1, <2>3, <3>1 DEF Carries
  <2> QED
    BY <2>2, <2>3
<1>3. JournalTypeOK'
  <2>1. \A t \in Sessions : sess'[t] \in Session
    BY <1>1, <1>2, IdleIsSound
  <2>2. sess' \in [Sessions -> Session]
    BY <2>1 DEF Commit
  <2>3. lock' \in Sessions \cup {NoSession}
    BY DEF Commit, Kept, JournalTypeOK
  <2> QED
    BY <2>2, <2>3 DEF Kept, JournalTypeOK
<1>4. \A d \in Dates : Closed(d)' = Closed(d)
  BY DEF Closed
<1>5. Asked'
  <2> SUFFICES ASSUME NEW t \in Sessions
               PROVE  (Shape(sess[t]) /\ Meets(sess[t]) /\ Reads(sess[t]))'
    BY DEF Asked
  <2>1. CASE t = s
    <3>1. PICK v : v = sess'[t]
      OBVIOUS
    <3>2. v = Idle
      BY <1>1, <2>1, <3>1
    <3> QED
      BY <3>1, <3>2, JournalAssumption DEF Shape, Meets, Reads, Idle, OnEntry
  <2>2. CASE t # s
    <3>1. JournalTypeOK /\ Shape(sess[t]) /\ Meets(sess[t]) /\ Reads(sess[t])
      BY DEF Kept, Asked
    <3> QED
      BY <1>2, <1>4, <2>2, <3>1, GoesOn
  <2> QED
    BY <2>1, <2>2
<1>6. OwnDocument'
  <2> SUFFICES ASSUME NEW t \in Sessions, NEW u \in Sessions, t # u, sess'[t].doc \in Docs
               PROVE  sess'[u].doc # sess'[t].doc
    BY DEF OwnDocument
  <2>1. t # s /\ sess'[t].doc = sess[t].doc
    BY <1>1, <1>2, IdleIsSound, JournalAssumption DEF Carries
  <2> QED
    BY <1>1, <1>2, <2>1, IdleIsSound, JournalAssumption DEF Kept, OwnDocument, Carries
<1>7. Numbered'
  <2> SUFFICES ASSUME NEW t \in Sessions, sess'[t].pc = "insert"
               PROVE  lock' = t /\ \A f \in Live' : entry'[f].number < sess'[t].number
    BY DEF Numbered, Stage
  <2>1. t # s /\ sess[t].pc = "insert" /\ sess'[t].number = sess[t].number
    BY <1>1, <1>2, IdleIsSound DEF Carries
  <2>2. lock = t
    BY <2>1 DEF Kept, Numbered, Stage
  <2>3. lock' = t
    BY <2>1, <2>2 DEF Commit
  <2> QED
    BY <2>1, <2>3 DEF Stage
<1> QED
  BY <1>3, <1>5, <1>6, <1>7

(* What the insert writes: one unused row, under the highest number.         *)
LEMMA Inserted ==
  ASSUME Kept, NEW s \in Sessions, Insert(s)
  PROVE  \E n \in Unused :
           /\ entry' = [entry EXCEPT ![n] = NewRow(s)]
           /\ NewRow(s) \in Row
           /\ NewRow(s).status = IF sess[s].op = "draft" THEN "draft" ELSE "posted"
           /\ NewRow(s).number = sess[s].number
           /\ NewRow(s).date = sess[s].date
           /\ NewRow(s).doc = sess[s].doc
           /\ NewRow(s).reverses = IF sess[s].op = "reverse" THEN sess[s].id ELSE NoEntry
           /\ n \in Entries /\ entry[n].status = "none" /\ n # sess[s].id
           /\ sess[s].id \in Entries => sess[s].op = "reverse" /\ sess[s].id \in Live
           /\ sess[s].op \in Creates
<1>1. PICK n \in Unused : entry' = [entry EXCEPT ![n] = NewRow(s)]
  BY DEF Insert
<1>2. n \in Entries /\ entry[n].status = "none"
  BY <1>1 DEF Unused
<1>3. sess[s] \in Session /\ Shape(sess[s]) /\ Meets(sess[s]) /\ Stage(s, "insert")
  BY DEF Kept, JournalTypeOK, Asked, Insert
<1>4. NewRow(s) \in Row
  BY <1>3, JournalAssumption DEF NewRow, Row, Session
<1>5. /\ NewRow(s).status = IF sess[s].op = "draft" THEN "draft" ELSE "posted"
      /\ NewRow(s).number = sess[s].number
      /\ NewRow(s).date = sess[s].date
      /\ NewRow(s).doc = sess[s].doc
      /\ NewRow(s).reverses = IF sess[s].op = "reverse" THEN sess[s].id ELSE NoEntry
  BY DEF NewRow
<1>6. sess[s].op \in Creates /\ (sess[s].id \in Entries => sess[s].op = "reverse")
  BY <1>3 DEF Shape, Stage, OnEntry, Creates
<1>7. sess[s].id \in Entries => entry[sess[s].id].status # "none" /\ sess[s].id \in Live
  BY <1>3, <1>6 DEF Meets, Insert, OnEntry, Shape
<1> QED
  BY <1>1, <1>2, <1>4, <1>5, <1>6, <1>7

LEMMA KeptInsert ==
  ASSUME Kept, NEW s \in Sessions, Insert(s)
  PROVE  Kept'
<1> USE JournalAssumption
<1>1. PICK n \in Unused :
           /\ entry' = [entry EXCEPT ![n] = NewRow(s)]
           /\ NewRow(s) \in Row
           /\ NewRow(s).status = IF sess[s].op = "draft" THEN "draft" ELSE "posted"
           /\ NewRow(s).number = sess[s].number
           /\ NewRow(s).date = sess[s].date
           /\ NewRow(s).doc = sess[s].doc
           /\ NewRow(s).reverses = IF sess[s].op = "reverse" THEN sess[s].id ELSE NoEntry
           /\ n \in Entries /\ entry[n].status = "none" /\ n # sess[s].id
           /\ sess[s].id \in Entries => sess[s].op = "reverse" /\ sess[s].id \in Live
           /\ sess[s].op \in Creates
  BY Inserted
<1>2. PICK u, e, new : u = sess[s] /\ e = sess[s].id /\ new = NewRow(s)
  OBVIOUS
<1>3. u \in Session /\ Shape(u) /\ Meets(u) /\ u.pc = "insert" /\ u.id = e
  BY <1>2 DEF Kept, JournalTypeOK, Asked, Insert, Stage
<1>4. entry \in [Entries -> Row] /\ doc \in [Docs -> {"none", "open", "void"}]
  BY DEF Kept, JournalTypeOK
<1>5. /\ entry' \in [Entries -> Row] /\ entry'[n] = new
      /\ \A f \in Entries \ {n} : entry'[f] = entry[f]
  BY <1>1, <1>2, <1>4
<1>6. e \in Entries \cup {NoEntry}
  BY <1>3 DEF Session
<1>7. doc' = IF u.op = "document" THEN [doc EXCEPT ![u.doc] = "open"] ELSE doc
  BY <1>2 DEF Insert
<1>8. u.op = "document" => u.doc \in Docs /\ doc[u.doc] = "none"
  BY <1>3 DEF Shape, Meets
<1>9. doc' \in [Docs -> {"none", "open", "void"}]
  BY <1>4, <1>7
<1>10. Frame(e)
  <2> SUFFICES ASSUME NEW f \in Entries, entry[f].status # "none"
               PROVE  /\ entry'[f] = entry[f]
                      /\ f # e /\ Reversals(f) = {} => Reversals(f)' = {}
    BY DEF Frame
  <2>1. f # n /\ entry'[f] = entry[f]
    BY <1>1, <1>5
  <2>2. ASSUME f # e, Reversals(f) = {}, NEW r \in Entries,
               entry'[r].status = "posted", entry'[r].reverses = f
        PROVE  FALSE
    <3>1. r # n
      BY <1>1, <1>2, <1>5, <2>2
    <3> QED
      BY <1>5, <2>2, <3>1 DEF Reversals
  <2> QED
    BY <2>1, <2>2 DEF Reversals
<1>11. Commit(s, e) /\ UNCHANGED period
  BY <1>2 DEF Insert
<1>12. \A t \in Sessions \ {s} : sess[t].op = "document" => doc'[sess[t].doc] = "none"
  <2> SUFFICES ASSUME NEW t \in Sessions, t # s, sess[t].op = "document"
               PROVE  doc'[sess[t].doc] = "none"
    OBVIOUS
  <2>1. sess[t].doc \in Docs /\ doc[sess[t].doc] = "none"
    BY DEF Kept, Asked, Shape, Meets
  <2>2. u.op = "document" => sess[t].doc # u.doc
    BY <1>2, <1>8 DEF Kept, OwnDocument
  <2> QED
    BY <1>4, <1>7, <2>1, <2>2
<1>13. \A t \in Sessions \ {s} : ~Stage(t, "insert")
  BY <1>2, <1>3 DEF Kept, Numbered, Stage
<1>14. JournalTypeOK' /\ Asked' /\ OwnDocument' /\ Numbered'
  BY <1>5, <1>6, <1>9, <1>10, <1>11, <1>12, <1>13, Committed
<1>15. Live' \subseteq Live \cup {n}
  BY <1>5 DEF Live
<1>16. Bounded' /\ Finite'
  <2>1. u.number \in Nat /\ \A f \in Live : entry[f].number < u.number
    BY <1>2, <1>3 DEF Kept, Numbered, Stage, Session
  <2>2. \A f \in Live' : entry'[f].number <= u.number
    <3> SUFFICES ASSUME NEW f \in Live' PROVE entry'[f].number <= u.number
      OBVIOUS
    <3>1. CASE f = n
      BY <1>1, <1>2, <1>5, <2>1, <3>1
    <3>2. CASE f # n
      <4>1. f \in Entries /\ f \in Live /\ entry'[f] = entry[f]
        BY <1>5, <1>15, <3>2 DEF Live
      <4>2. entry[f].number \in Nat
        BY <1>4, <4>1 DEF Row
      <4> QED
        BY <2>1, <4>1, <4>2
    <3> QED
      BY <3>1, <3>2
  <2>3. IsFiniteSet(Live \cup {n})
    BY FS_AddElement DEF Kept, Finite
  <2>4. IsFiniteSet(Live')
    BY <1>15, <2>3, FS_Subset
  <2> QED
    BY <2>1, <2>2, <2>4 DEF Bounded, Finite
<1>17. Pointed'
  <2> SUFFICES ASSUME NEW f \in Entries, entry'[f].reverses # NoEntry
               PROVE  /\ entry'[f].status \in {"posted", "void"}
                      /\ entry'[entry'[f].reverses].status # "none"
                      /\ entry'[entry'[f].reverses].doc = NoDoc
    BY DEF Pointed
  <2>1. CASE f = n
    <3>1. new.reverses = e /\ u.op = "reverse" /\ new.status = "posted"
      BY <1>1, <1>2, <1>5, <2>1
    <3>2. e \in Entries /\ entry[e].status # "none" /\ entry[e].doc = NoDoc /\ e # n
      BY <1>1, <1>2, <1>3, <3>1 DEF Meets, Shape, OnEntry
    <3> QED
      BY <1>5, <2>1, <3>1, <3>2
  <2>2. CASE f # n
    <3>1. entry'[f] = entry[f] /\ entry[f].status \in {"posted", "void"}
           /\ entry[entry[f].reverses].status # "none" /\ entry[entry[f].reverses].doc = NoDoc
      BY <1>5, <2>2 DEF Kept, Pointed
    <3>2. entry[f].reverses \in Entries \ {n}
      BY <1>1, <1>4, <1>5, <2>2, <3>1 DEF Row
    <3> QED
      BY <1>5, <3>1, <3>2
  <2> QED
    BY <2>1, <2>2
<1>18. Documented'
  <2>1. new.doc = u.doc /\ (u.op # "document" => u.doc \notin Docs)
    BY <1>1, <1>2, <1>3 DEF Shape
  <2>2. u.op = "document" => new.status = "posted" /\ doc'[u.doc] = "open"
                             /\ \A f \in Entries : entry[f].doc # u.doc
    BY <1>1, <1>2, <1>4, <1>7, <1>8 DEF Kept, Documented
  <2>3. \A d \in Docs : d # u.doc => doc'[d] = doc[d]
    BY <1>4, <1>7
  <2>4. u.op # "document" => doc' = doc
    BY <1>7
  <2>5. ASSUME NEW f \in Entries, entry'[f].doc \in Docs
        PROVE  \/ entry'[f].status = "posted" /\ doc'[entry'[f].doc] = "open"
               \/ entry'[f].status = "void" /\ doc'[entry'[f].doc] = "void"
    <3>1. CASE f = n
      BY <1>5, <2>1, <2>2, <2>5, <3>1
    <3>2. CASE f # n
      <4>1. entry'[f] = entry[f]
        BY <1>5, <3>2
      <4>2. doc'[entry[f].doc] = doc[entry[f].doc]
        BY <2>2, <2>3, <2>4, <2>5, <4>1
      <4> QED
        BY <2>5, <4>1, <4>2 DEF Kept, Documented
    <3> QED
      BY <3>1, <3>2
  <2>6. \A f, g \in Entries : entry'[f].doc \in Docs /\ entry'[f].doc = entry'[g].doc => f = g
    BY <1>5, <2>1, <2>2 DEF Kept, Documented
  <2>7. ASSUME NEW d \in Docs, doc'[d] = "open"
        PROVE  \E f \in Entries : entry'[f].doc = d
    <3>1. CASE u.op = "document" /\ d = u.doc
      BY <1>1, <1>5, <2>1, <3>1
    <3>2. CASE ~(u.op = "document" /\ d = u.doc)
      <4>1. doc[d] = "open"
        BY <2>3, <2>4, <2>7, <3>2
      <4>2. PICK f \in Entries : entry[f].doc = d
        BY <4>1 DEF Kept, Documented
      <4>3. f # n
        BY <1>1, <4>1, <4>2 DEF Kept, Documented
      <4> QED
        BY <1>5, <4>2, <4>3
    <3> QED
      BY <3>1, <3>2
  <2> QED
    BY <2>5, <2>6, <2>7 DEF Documented
<1> QED
  BY <1>14, <1>16, <1>17, <1>18 DEF Kept

(* An UPDATE of a row's status by id: the row and its numbers stay.          *)
LEMMA StatusSet ==
  ASSUME Kept, NEW e \in Entries, NEW status \in {"posted", "void"}, SetStatus(e, status),
         status = "posted" => entry[e].reverses = NoEntry
  PROVE  /\ entry' \in [Entries -> Row]
         /\ \A f \in Entries :
              /\ entry'[f].doc = entry[f].doc
              /\ entry'[f].number = entry[f].number
              /\ entry'[f].date = entry[f].date
              /\ entry'[f].reverses = entry[f].reverses
              /\ f # e \/ e \notin Live => entry'[f] = entry[f]
         /\ e \in Live => entry'[e].status = status
         /\ Live' = Live
         /\ Frame(e)
         /\ Pointed'
<1>1. entry \in [Entries -> Row]
  BY DEF Kept, JournalTypeOK
<1>2. e \in Live => entry' = [entry EXCEPT ![e].status = status]
  BY DEF SetStatus
<1>3. e \notin Live => entry' = entry
  BY DEF SetStatus
<1>4. [entry[e] EXCEPT !.status = status] \in Row
  <2>1. entry[e] \in Row
    BY <1>1
  <2> QED
    BY <2>1 DEF Row
<1>5. entry' \in [Entries -> Row]
  BY <1>1, <1>2, <1>3, <1>4
<1>6. ASSUME NEW f \in Entries
      PROVE  /\ entry'[f].doc = entry[f].doc
             /\ entry'[f].number = entry[f].number
             /\ entry'[f].date = entry[f].date
             /\ entry'[f].reverses = entry[f].reverses
             /\ f # e \/ e \notin Live => entry'[f] = entry[f]
  <2>1. entry[f] \in Row
    BY <1>1
  <2> QED
    BY <1>1, <1>2, <1>3, <2>1 DEF Row
<1>7. e \in Live => entry'[e].status = status
  <2>1. entry[e] \in Row
    BY <1>1
  <2> QED
    BY <1>1, <1>2, <2>1 DEF Row
<1>8. Live' = Live
  BY <1>6, <1>7 DEF Live
<1>9. Frame(e)
  <2> SUFFICES ASSUME NEW f \in Entries, entry[f].status # "none"
               PROVE  /\ entry'[f].status # "none"
                      /\ f # e /\ Reversals(f) = {} => Reversals(f)' = {}
    BY <1>6 DEF Frame
  <2>1. entry'[f].status # "none"
    BY <1>6, <1>7
  <2>2. ASSUME Reversals(f) = {}, NEW r \in Entries,
               entry'[r].status = "posted", entry'[r].reverses = f
        PROVE  FALSE
    <3>1. entry[r].reverses = f /\ f # NoEntry
      BY <1>6, <2>2, JournalAssumption
    <3>2. CASE r = e /\ e \in Live
      BY <1>7, <2>2, <3>1, <3>2
    <3>3. CASE ~(r = e /\ e \in Live)
      BY <1>6, <2>2, <3>1, <3>3 DEF Reversals
    <3> QED
      BY <3>2, <3>3
  <2> QED
    BY <2>1, <2>2 DEF Reversals
<1>10. Pointed'
  <2> SUFFICES ASSUME NEW f \in Entries, entry'[f].reverses # NoEntry
               PROVE  /\ entry'[f].status \in {"posted", "void"}
                      /\ entry'[entry'[f].reverses].status # "none"
                      /\ entry'[entry'[f].reverses].doc = NoDoc
    BY DEF Pointed
  <2>1. /\ entry'[f].reverses = entry[f].reverses /\ entry[f].reverses # NoEntry
        /\ entry[f].reverses \in Entries
    BY <1>1, <1>6 DEF Row
  <2>2. /\ entry[f].status \in {"posted", "void"}
        /\ entry[entry[f].reverses].status # "none" /\ entry[entry[f].reverses].doc = NoDoc
    BY <2>1 DEF Kept, Pointed
  <2> QED
    BY <1>6, <1>7, <2>1, <2>2
<1> QED
  BY <1>5, <1>6, <1>7, <1>8, <1>9, <1>10

(* A DELETE by id of a row that holds no document and reverses nothing.      *)
LEMMA Deleted ==
  ASSUME Kept, NEW e \in Entries, Delete(e), entry[e].doc = NoDoc, entry[e].status # "none"
  PROVE  /\ entry' \in [Entries -> Row]
         /\ entry'[e].status = "deleted" /\ entry'[e].doc = NoDoc
         /\ entry'[e].reverses = NoEntry
         /\ \A f \in Entries \ {e} :
              /\ entry'[f].doc = entry[f].doc
              /\ entry'[f].number = entry[f].number
              /\ entry'[f].date = entry[f].date
              /\ entry'[f].status = entry[f].status
              /\ entry'[f].reverses = IF entry[f].reverses = e THEN NoEntry ELSE entry[f].reverses
         /\ Live' = Live \ {e}
         /\ Frame(e)
         /\ Pointed'
<1> USE JournalAssumption
<1>1. \A f \in Entries : entry[f] \in Row
  BY DEF Kept, JournalTypeOK
<1>2. entry' = [f \in Entries |->
    IF f = e THEN [NoRow EXCEPT !.status = "deleted"]
    ELSE IF entry[f].reverses = e THEN [entry[f] EXCEPT !.reverses = NoEntry]
    ELSE entry[f]]
  BY DEF Delete
<1>3. /\ [NoRow EXCEPT !.status = "deleted"] \in Row
      /\ [NoRow EXCEPT !.status = "deleted"].status = "deleted"
      /\ [NoRow EXCEPT !.status = "deleted"].doc = NoDoc
      /\ [NoRow EXCEPT !.status = "deleted"].reverses = NoEntry
  <2>1. NoRow \in Row /\ NoRow.doc = NoDoc /\ NoRow.reverses = NoEntry
    BY DEF NoRow, Row
  <2> QED
    BY <2>1 DEF Row
<1>4. entry'[e] \in Row /\ entry'[e].status = "deleted" /\ entry'[e].doc = NoDoc
        /\ entry'[e].reverses = NoEntry
  BY <1>2, <1>3
<1>5. ASSUME NEW f \in Entries, f # e
      PROVE  /\ entry'[f] \in Row
             /\ entry'[f].doc = entry[f].doc
             /\ entry'[f].number = entry[f].number
             /\ entry'[f].date = entry[f].date
             /\ entry'[f].status = entry[f].status
             /\ entry'[f].reverses = IF entry[f].reverses = e THEN NoEntry ELSE entry[f].reverses
  <2>1. entry'[f] = IF entry[f].reverses = e THEN [entry[f] EXCEPT !.reverses = NoEntry]
                    ELSE entry[f]
    BY <1>2, <1>5
  <2> QED
    BY <1>1, <2>1 DEF Row
<1>6. entry' \in [Entries -> Row]
  BY <1>2, <1>4, <1>5
<1>7. Live' = Live \ {e}
  BY <1>4, <1>5 DEF Live
<1>8. Frame(e)
  <2> SUFFICES ASSUME NEW f \in Entries, entry[f].status # "none"
               PROVE  /\ entry'[f].status # "none"
                      /\ entry'[f].doc = entry[f].doc
                      /\ entry[f].reverses = NoEntry => entry'[f].reverses = NoEntry
                      /\ f # e => /\ entry'[f].status = entry[f].status
                                  /\ entry'[f].date = entry[f].date
                                  /\ Reversals(f) = {} => Reversals(f)' = {}
    BY DEF Frame
  <2>1. ASSUME Reversals(f) = {}, NEW r \in Entries,
               entry'[r].status = "posted", entry'[r].reverses = f
        PROVE  FALSE
    BY <1>4, <1>5, <2>1 DEF Reversals
  <2> QED
    BY <1>4, <1>5, <2>1 DEF Reversals
<1>9. Pointed'
  <2> SUFFICES ASSUME NEW f \in Entries, entry'[f].reverses # NoEntry
               PROVE  /\ entry'[f].status \in {"posted", "void"}
                      /\ entry'[entry'[f].reverses].status # "none"
                      /\ entry'[entry'[f].reverses].doc = NoDoc
    BY DEF Pointed
  <2>1. /\ f # e /\ entry'[f].reverses = entry[f].reverses /\ entry[f].reverses # NoEntry
        /\ entry[f].reverses \in Entries \ {e}
    BY <1>1, <1>4, <1>5 DEF Row
  <2>2. /\ entry[f].status \in {"posted", "void"}
        /\ entry[entry[f].reverses].status # "none" /\ entry[entry[f].reverses].doc = NoDoc
    BY <2>1 DEF Kept, Pointed
  <2> QED
    BY <1>4, <1>5, <2>1, <2>2
<1> QED
  BY <1>4, <1>5, <1>6, <1>7, <1>8, <1>9

LEMMA KeptWrite ==
  ASSUME Kept, NEW s \in Sessions, Write(s)
  PROVE  Kept'
<1> USE JournalAssumption
<1>1. PICK u, e : u = sess[s] /\ e = sess[s].id
  OBVIOUS
<1>2. u \in Session /\ Shape(u) /\ Meets(u) /\ u.pc = "write" /\ u.id = e
  BY <1>1 DEF Kept, JournalTypeOK, Asked, Write, Stage
<1>3. e \in Entries /\ entry[e].status # "none" /\ u.op \in OnEntry
  BY <1>2 DEF Shape, Meets, OnEntry
<1>4. Commit(s, e) /\ UNCHANGED period
  BY <1>1 DEF Write
<1>5. entry \in [Entries -> Row] /\ doc \in [Docs -> {"none", "open", "void"}]
  BY DEF Kept, JournalTypeOK
<1>6. \A t \in Sessions : sess[t].op = "document" =>
        sess[t].doc \in Docs /\ doc[sess[t].doc] = "none"
  BY DEF Kept, Asked, Shape, Meets
<1>7. ASSUME entry' \in [Entries -> Row], Frame(e), Pointed', Documented', Live' \subseteq Live,
             \A f \in Live' : entry'[f].number = entry[f].number,
             doc' \in [Docs -> {"none", "open", "void"}],
             \A d \in Docs : doc[d] = "none" => doc'[d] = "none"
      PROVE  Kept'
  <2>1. \A t \in Sessions \ {s} : sess[t].op = "document" => doc'[sess[t].doc] = "none"
    BY <1>6, <1>7
  <2>2. \A t \in Sessions \ {s} : Stage(t, "insert") =>
           \A f \in Live' : entry'[f].number < sess[t].number
    BY <1>7 DEF Kept, Numbered
  <2>3. JournalTypeOK' /\ Asked' /\ OwnDocument' /\ Numbered'
    BY <1>3, <1>4, <1>7, <2>1, <2>2, Committed
  <2>4. Bounded'
    BY <1>7 DEF Kept, Bounded
  <2>5. Finite'
    BY <1>7, FS_Subset DEF Kept, Finite
  <2> QED
    BY <1>7, <2>3, <2>4, <2>5 DEF Kept
<1>8. ASSUME NEW status \in {"posted", "void"}, SetStatus(e, status), UNCHANGED doc,
             entry[e].doc = NoDoc, status = "posted" => entry[e].reverses = NoEntry
      PROVE  Kept'
  <2>1. /\ entry' \in [Entries -> Row]
        /\ \A f \in Entries :
              /\ entry'[f].doc = entry[f].doc
              /\ entry'[f].number = entry[f].number
              /\ f # e \/ e \notin Live => entry'[f] = entry[f]
        /\ Live' = Live /\ Frame(e) /\ Pointed'
    BY <1>3, <1>8, StatusSet
  <2>2. Documented'
    BY <1>3, <1>8, <2>1 DEF Kept, Documented
  <2>3. \A f \in Live' : entry'[f].number = entry[f].number
    BY <2>1 DEF Live
  <2> QED
    BY <1>5, <1>7, <1>8, <2>1, <2>2, <2>3
<1>9. CASE u.op = "postDraft" /\ SetStatus(e, "posted") /\ UNCHANGED doc
  BY <1>2, <1>8, <1>9 DEF Meets
<1>10. CASE u.op = "void" /\ SetStatus(e, "void") /\ UNCHANGED doc
  BY <1>2, <1>8, <1>10 DEF Meets
<1>11. CASE u.op = "discard" /\ Delete(e) /\ UNCHANGED doc
  <2>1. entry[e].doc = NoDoc
    BY <1>2, <1>11 DEF Meets
  <2>2. /\ entry' \in [Entries -> Row]
        /\ entry'[e].doc = NoDoc
        /\ \A f \in Entries \ {e} :
              /\ entry'[f].doc = entry[f].doc
              /\ entry'[f].number = entry[f].number
              /\ entry'[f].status = entry[f].status
        /\ Live' = Live \ {e} /\ Frame(e) /\ Pointed'
    BY <1>3, <1>11, <2>1, Deleted
  <2>3. Documented'
    BY <1>3, <1>11, <2>1, <2>2 DEF Kept, Documented
  <2>4. \A f \in Live' : entry'[f].number = entry[f].number
    BY <2>2 DEF Live
  <2> QED
    BY <1>5, <1>7, <1>11, <2>2, <2>3, <2>4
<1>12. CASE u.op = "voidDocument" /\ SetStatus(e, "void") /\ doc' = [doc EXCEPT ![entry[e].doc] = "void"]
  <2>1. PICK d \in Docs : d = entry[e].doc
    BY <1>2, <1>12 DEF Meets
  <2>2. doc[d] # "none" /\ entry[e].status \in {"posted", "void"}
    BY <1>3, <2>1 DEF Kept, Documented
  <2>3. doc' \in [Docs -> {"none", "open", "void"}] /\ doc'[d] = "void"
          /\ \A c \in Docs : c # d => doc'[c] = doc[c]
    BY <1>5, <1>12, <2>1
  <2>4. /\ entry' \in [Entries -> Row]
        /\ \A f \in Entries :
              /\ entry'[f].doc = entry[f].doc
              /\ entry'[f].number = entry[f].number
              /\ f # e \/ e \notin Live => entry'[f] = entry[f]
        /\ e \in Live => entry'[e].status = "void"
        /\ Live' = Live /\ Frame(e) /\ Pointed'
    BY <1>3, <1>12, StatusSet
  <2>5. entry'[e].status = "void"
    BY <1>3, <2>2, <2>4 DEF Live
  <2>6. Documented'
    <3>1. ASSUME NEW f \in Entries, entry'[f].doc \in Docs
          PROVE  \/ entry'[f].status = "posted" /\ doc'[entry'[f].doc] = "open"
                 \/ entry'[f].status = "void" /\ doc'[entry'[f].doc] = "void"
      <4>1. CASE f = e
        BY <2>1, <2>3, <2>4, <2>5, <4>1
      <4>2. CASE f # e
        <5>1. entry'[f] = entry[f] /\ entry[f].doc # d
          BY <1>3, <2>1, <2>4, <3>1, <4>2 DEF Kept, Documented
        <5> QED
          BY <2>3, <3>1, <5>1 DEF Kept, Documented
      <4> QED
        BY <4>1, <4>2
    <3> QED
      BY <2>3, <2>4, <3>1 DEF Kept, Documented
  <2>7. \A f \in Live' : entry'[f].number = entry[f].number
    BY <2>4 DEF Live
  <2>8. \A c \in Docs : doc[c] = "none" => doc'[c] = "none"
    BY <2>2, <2>3
  <2> QED
    BY <1>7, <2>3, <2>4, <2>6, <2>7, <2>8
<1> QED
  BY <1>1, <1>9, <1>10, <1>11, <1>12 DEF Write

-----------------------------------------------------------------------------
(* Closing and reopening a period.                                          *)

(* No row changes, and a request that had checked a day of the period learns *)
(* that it was closed.                                                       *)
LEMMA PeriodsOnly ==
  ASSUME Kept, UNCHANGED <<entry, doc, lock>>,
         period' \in [Closings -> [status : {"none", "closed", "reopened"},
                                   start : Dates, end : Dates]],
         DOMAIN sess' = Sessions, sess' = [t \in Sessions |-> sess'[t]],
         \A t \in Sessions : sess'[t] \in Session /\ Carries(t),
         \A t \in Sessions, d \in Dates :
           sess[t].pc \in {"number", "insert", "write"} /\ d = CheckedDay(t)
             /\ Closed(d)' /\ ~Closed(d) => "close" \in sess'[t].lost
  PROVE  Kept'
<1>1. JournalTypeOK'
  BY DEF Kept, JournalTypeOK
<1>2. Live' = Live /\ \A f \in Entries : Reversals(f)' = Reversals(f)
  BY DEF Live, Reversals
<1>3. Frame(NoEntry)
  BY <1>2 DEF Frame
<1>4. Asked'
  <2> SUFFICES ASSUME NEW t \in Sessions
               PROVE  (Shape(sess[t]) /\ Meets(sess[t]) /\ Reads(sess[t]))'
    BY DEF Asked
  <2>1. JournalTypeOK /\ Shape(sess[t]) /\ Meets(sess[t]) /\ Reads(sess[t])
    BY DEF Kept, Asked
  <2>2. sess[t].op = "document" => doc'[sess[t].doc] = "none"
    BY <2>1 DEF Meets
  <2> QED
    BY <1>3, <2>1, <2>2, GoesOn
<1>5. OwnDocument'
  BY DEF Kept, OwnDocument, Carries
<1>6. Numbered'
  BY <1>2 DEF Kept, Numbered, Carries, Stage
<1>7. (Documented /\ Pointed /\ Bounded /\ Finite)'
  BY <1>2 DEF Kept, Documented, Pointed, Bounded, Finite
<1> QED
  BY <1>1, <1>4, <1>5, <1>6, <1>7 DEF Kept

LEMMA KeptClosePeriod ==
  ASSUME Kept, NEW p \in Closings, ClosePeriod(p)
  PROVE  Kept'
<1>1. PICK span \in Spans :
       /\ period' = [period EXCEPT ![p] = [status |-> "closed", start |-> span[1], end |-> span[2]]]
       /\ sess' = [s \in Sessions |->
            IF sess[s].pc \in {"number", "insert", "write"} /\ CheckedDay(s) \in span[1] .. span[2]
            THEN [sess[s] EXCEPT !.lost = @ \cup {"close"}] ELSE sess[s]]
  BY DEF ClosePeriod
<1>2. span[1] \in Dates /\ span[2] \in Dates /\ Dates \subseteq Nat
  BY JournalAssumption
<1>3. period' \in [Closings -> [status : {"none", "closed", "reopened"},
                                start : Dates, end : Dates]]
  BY <1>1, <1>2 DEF Kept, JournalTypeOK
<1>4. ASSUME NEW t \in Sessions PROVE sess'[t] \in Session /\ Carries(t)
  <2>1. sess[t] \in Session
    BY DEF Kept, JournalTypeOK
  <2>2. \/ sess'[t] = [sess[t] EXCEPT !.lost = @ \cup {"close"}]
        \/ sess'[t] = sess[t]
    BY <1>1
  <2>3. CASE sess'[t] = [sess[t] EXCEPT !.lost = @ \cup {"close"}]
    BY <2>1, <2>3 DEF Session, Carries
  <2>4. CASE sess'[t] = sess[t]
    BY <2>1, <2>4 DEF Carries
  <2> QED
    BY <2>2, <2>3, <2>4
<1>5. ASSUME NEW d \in Dates, Closed(d)', ~Closed(d)
      PROVE  d \in span[1] .. span[2]
  <2>1. PICK c \in Closings :
          period'[c].status = "closed" /\ period'[c].start <= d /\ d <= period'[c].end
    BY <1>5 DEF Closed
  <2>2. c = p
    BY <1>1, <1>5, <2>1 DEF Closed, Kept, JournalTypeOK
  <2>3. period'[p] = [status |-> "closed", start |-> span[1], end |-> span[2]]
    BY <1>1 DEF Kept, JournalTypeOK
  <2>4. span[1] <= d /\ d <= span[2]
    BY <2>1, <2>2, <2>3
  <2>5. d \in Nat /\ span[1] \in Nat /\ span[2] \in Nat
    BY <1>2
  <2> QED
    BY <2>4, <2>5
<1>6. ASSUME NEW t \in Sessions, NEW d \in Dates,
             sess[t].pc \in {"number", "insert", "write"}, d = CheckedDay(t),
             Closed(d)', ~Closed(d)
      PROVE  "close" \in sess'[t].lost
  <2>1. CheckedDay(t) \in span[1] .. span[2]
    BY <1>5, <1>6
  <2>2. sess'[t] = [sess[t] EXCEPT !.lost = @ \cup {"close"}]
    BY <1>1, <1>6, <2>1
  <2>3. sess[t] \in Session
    BY DEF Kept, JournalTypeOK
  <2> QED
    BY <2>2, <2>3 DEF Session
<1>7. UNCHANGED <<entry, doc, lock>>
  BY DEF ClosePeriod
<1>8. DOMAIN sess' = Sessions /\ sess' = [t \in Sessions |-> sess'[t]]
  BY <1>1
<1> QED
  BY <1>3, <1>4, <1>6, <1>7, <1>8, PeriodsOnly

LEMMA KeptReopenPeriod ==
  ASSUME Kept, NEW p \in Closings, ReopenPeriod(p)
  PROVE  Kept'
<1>1. /\ period' = [period EXCEPT ![p].status = "reopened"]
      /\ UNCHANGED <<entry, doc, lock, sess>>
  BY DEF ReopenPeriod
<1>2. period' \in [Closings -> [status : {"none", "closed", "reopened"},
                                start : Dates, end : Dates]]
  BY <1>1 DEF Kept, JournalTypeOK
<1>3. \A d \in Dates : Closed(d)' => Closed(d)
  BY <1>1 DEF Closed, Kept, JournalTypeOK
<1>4. \A t \in Sessions : sess'[t] \in Session /\ Carries(t)
  BY <1>1 DEF Carries, Kept, JournalTypeOK
<1>5. DOMAIN sess' = Sessions /\ sess' = [t \in Sessions |-> sess'[t]]
  BY <1>1 DEF Kept, JournalTypeOK
<1> QED
  BY <1>1, <1>2, <1>3, <1>4, <1>5, PeriodsOnly

LEMMA KeptNext == Kept /\ [Next]_vars => Kept'
<1> SUFFICES ASSUME Kept, [Next]_vars PROVE Kept'
  OBVIOUS
<1>1. ASSUME NEW s \in Sessions, Handle(s) PROVE Kept'
  <2>1. CASE BeginCreate(s)
    BY <2>1, KeptBeginCreate
  <2>2. CASE BeginDocument(s)
    BY <2>2, KeptBeginDocument
  <2>3. CASE BeginPostDraft(s) \/ BeginDiscard(s)
    BY <2>3, KeptBeginDraftWrite
  <2>4. CASE BeginCorrect(s)
    BY <2>4, KeptBeginCorrect
  <2>5. CASE BeginVoidDocument(s)
    BY <2>5, KeptBeginVoidDocument
  <2>6. CASE ReadToVoid(s)
    BY <2>6, KeptReadToVoid
  <2>7. CASE ReadToReverse(s)
    BY <2>7, KeptReadToReverse
  <2>8. CASE TakeNumber(s)
    BY <2>8, KeptTakeNumber
  <2>9. CASE Insert(s)
    BY <2>9, KeptInsert
  <2>10. CASE Write(s)
    BY <2>10, KeptWrite
  <2>11. CASE RollBack(s)
    BY <2>11, KeptRollBack
  <2> QED
    BY <1>1, <2>1, <2>2, <2>3, <2>4, <2>5, <2>6, <2>7, <2>8, <2>9, <2>10, <2>11, Zenon
       DEF Handle
<1>2. ASSUME NEW p \in Closings, ClosePeriod(p) \/ ReopenPeriod(p) PROVE Kept'
  BY <1>2, KeptClosePeriod, KeptReopenPeriod
<1>3. CASE UNCHANGED vars
  <2>1. UNCHANGED <<entry, period, doc, lock, sess>>
    BY <1>3 DEF vars
  <2>3. \A t \in Sessions : sess'[t] \in Session /\ Carries(t)
    BY <2>1 DEF Carries, Kept, JournalTypeOK
  <2>4. \A d \in Dates : Closed(d)' => Closed(d)
    BY <2>1 DEF Closed
  <2>5. DOMAIN sess' = Sessions /\ sess' = [t \in Sessions |-> sess'[t]]
    BY <2>1 DEF Kept, JournalTypeOK
  <2>6. period' \in [Closings -> [status : {"none", "closed", "reopened"},
                                  start : Dates, end : Dates]]
    BY <2>1 DEF Kept, JournalTypeOK
  <2> QED
    BY <2>1, <2>3, <2>4, <2>5, <2>6, PeriodsOnly
<1> QED
  BY <1>1, <1>2, <1>3, Zenon DEF Next

LEMMA AlwaysKept == Spec => []Kept
<1>1. Init => Kept
  BY KeptInit
<1>2. Kept /\ [Next]_vars => Kept'
  BY KeptNext
<1> QED
  BY <1>1, <1>2, PTL DEF Spec

-----------------------------------------------------------------------------
(* What holds in every state.                                               *)

(* Type correctness of the journal, for any number of entries, requests,     *)
(* documents, days and periods.                                              *)
THEOREM JournalTypeCorrect == Spec => []JournalTypeOK
<1>1. Kept => JournalTypeOK
  BY DEF Kept
<1> QED
  BY <1>1, AlwaysKept, PTL

(* nextEntryNumber's lock does what it is for: two requests never insert     *)
(* under one number, and none under a number already committed.              *)
THEOREM NumbersAreFree == Spec => []NumberIsFree
<1>1. Kept => NumberIsFree
  <2> SUFFICES ASSUME Kept, NEW s \in Sessions, Stage(s, "insert")
               PROVE  /\ \A e \in Live : entry[e].number # sess[s].number
                      /\ \A t \in Sessions \ {s} : ~Stage(t, "insert")
    BY DEF NumberIsFree
  <2>1. ASSUME NEW e \in Live PROVE entry[e].number # sess[s].number
    <3>1. entry[e].number \in Nat /\ sess[s].number \in Nat
      BY DEF Live, Kept, JournalTypeOK, Row, Session
    <3>2. entry[e].number < sess[s].number
      BY DEF Kept, Numbered
    <3> QED
      BY <3>1, <3>2
  <2>2. \A t \in Sessions \ {s} : ~Stage(t, "insert")
    BY DEF Kept, Numbered
  <2> QED
    BY <2>1, <2>2
<1> QED
  BY <1>1, AlwaysKept, PTL

(* The documents and the ledger agree, whoever voids and corrects at once.   *)
THEOREM SubledgerAgrees == Spec => []DocumentsAgree
<1>1. Kept => DocumentsAgree
  BY DEF Kept, Documented, DocumentsAgree
<1> QED
  BY <1>1, AlwaysKept, PTL

-----------------------------------------------------------------------------
(* What no step does.                                                       *)

(* A request that ends has written something itself, or nothing is written.  *)
LEMMA OwnStep ==
  ASSUME Kept, Next, NEW s \in Sessions, ~Stage(s, "idle"), sess'[s] = Idle
  PROVE  UNCHANGED entry \/ Insert(s) \/ Write(s)
<1>1. ASSUME NEW t \in Sessions, Handle(t)
      PROVE  UNCHANGED entry \/ Insert(t) \/ Write(t)
  BY <1>1 DEF Handle, BeginCreate, BeginDocument, BeginPostDraft, BeginDiscard, BeginCorrect,
       BeginVoidDocument, ReadToVoid, ReadToReverse, TakeNumber, RollBack
<1>2. ASSUME NEW t \in Sessions, NEW e, Commit(t, e) PROVE t = s
  <2> SUFFICES ASSUME t # s PROVE FALSE
    OBVIOUS
  <2>1. sess[s] \in Session
    BY DEF Kept, JournalTypeOK
  <2>2. sess'[s] = sess[s] \/ sess'[s] = [sess[s] EXCEPT !.lost = @ \cup {"entry"}]
    BY <1>2 DEF Commit
  <2>3. sess'[s].pc = sess[s].pc
    BY <2>1, <2>2 DEF Session
  <2> QED
    BY <2>3, IdleIsSound DEF Stage
<1>3. ASSUME NEW t \in Sessions, Insert(t) \/ Write(t) PROVE t = s
  <2>1. PICK e : e = sess[t].id
    OBVIOUS
  <2>2. Commit(t, e)
    BY <1>3, <2>1 DEF Insert, Write
  <2> QED
    BY <1>2, <2>2
<1>4. ASSUME NEW p \in Closings, ClosePeriod(p) \/ ReopenPeriod(p) PROVE UNCHANGED entry
  BY <1>4 DEF ClosePeriod, ReopenPeriod
<1> QED
  BY <1>1, <1>3, <1>4 DEF Next

(* What a write does to the entry it is about, as the request last read it.  *)
LEMMA Written ==
  ASSUME Kept, NEW s \in Sessions, Write(s), "entry" \notin sess[s].lost
  PROVE  \E e \in Entries :
    /\ e = sess[s].id
    /\ \A f \in Entries :
         /\ f # e => entry'[f].status = entry[f].status /\ entry'[f].date = entry[f].date
         /\ Reversals(f)' \subseteq Reversals(f)
    /\ entry'[e].reverses = entry[e].reverses
    /\ \/ /\ sess[s].op = "postDraft"
          /\ entry[e].status = "draft" /\ entry'[e].status = "posted"
          /\ entry'[e].date = entry[e].date
       \/ /\ sess[s].op = "discard"
          /\ entry[e].status = "draft" /\ entry'[e].status = "deleted"
       \/ /\ sess[s].op \in {"void", "voidDocument"}
          /\ entry[e].status # "deleted" /\ entry'[e].status = "void"
          /\ entry'[e].date = entry[e].date
          /\ entry[e].status # "void" => Reversals(e) = {}
<1> USE JournalAssumption
<1>1. PICK e : e = sess[s].id
  OBVIOUS
<1>2. Shape(sess[s]) /\ Meets(sess[s]) /\ Reads(sess[s]) /\ sess[s].pc = "write"
  BY DEF Kept, Asked, Write, Stage
<1>3. e \in Entries /\ entry[e].status # "none" /\ sess[s].op \in OnEntry
  BY <1>1, <1>2 DEF Shape, Meets, OnEntry
<1>4. ASSUME NEW status \in {"posted", "void"}, SetStatus(e, status), e \in Live,
             status = "posted" => entry[e].reverses = NoEntry
      PROVE  /\ \A f \in Entries :
                  /\ f # e => entry'[f].status = entry[f].status /\ entry'[f].date = entry[f].date
                  /\ Reversals(f)' \subseteq Reversals(f)
             /\ entry'[e].reverses = entry[e].reverses
             /\ entry'[e].status = status /\ entry'[e].date = entry[e].date
  <2>1. /\ \A f \in Entries :
              /\ entry'[f].date = entry[f].date
              /\ entry'[f].reverses = entry[f].reverses
              /\ f # e \/ e \notin Live => entry'[f] = entry[f]
        /\ entry'[e].status = status
    BY <1>3, <1>4, StatusSet
  <2>2. ASSUME NEW f \in Entries, NEW r \in Reversals(f)' PROVE r \in Reversals(f)
    <3>1. /\ r \in Entries /\ entry'[r].status = "posted" /\ entry'[r].reverses = f
          /\ f # NoEntry
      BY <2>2 DEF Reversals
    <3>2. r # e
      BY <1>4, <2>1, <3>1
    <3> QED
      BY <2>1, <3>1, <3>2 DEF Reversals
  <2> QED
    BY <1>3, <2>1, <2>2
<1>5. CASE sess[s].op = "postDraft" /\ SetStatus(e, "posted")
  <2>1. entry[e].status = "draft" /\ entry[e].reverses = NoEntry
    BY <1>1, <1>2, <1>5 DEF Meets, Reads
  <2>2. e \in Live
    BY <1>3, <2>1 DEF Live
  <2> QED
    BY <1>1, <1>3, <1>4, <1>5, <2>1, <2>2
<1>6. CASE sess[s].op = "void" /\ SetStatus(e, "void")
  <2>1. entry[e].status \in {"draft", "posted"} /\ Reversals(e) = {}
    BY <1>1, <1>2, <1>6 DEF Reads
  <2>2. e \in Live
    BY <1>3, <2>1 DEF Live
  <2> QED
    BY <1>1, <1>3, <1>4, <1>6, <2>1, <2>2
<1>7. CASE sess[s].op = "discard" /\ Delete(e)
  <2>1. entry[e].status = "draft" /\ entry[e].doc = NoDoc /\ entry[e].reverses = NoEntry
    BY <1>1, <1>2, <1>7 DEF Meets, Reads
  <2>2. /\ entry'[e].status = "deleted" /\ entry'[e].reverses = NoEntry
        /\ \A f \in Entries \ {e} :
              /\ entry'[f].date = entry[f].date
              /\ entry'[f].status = entry[f].status
              /\ entry'[f].reverses = IF entry[f].reverses = e THEN NoEntry ELSE entry[f].reverses
    BY <1>3, <1>7, <2>1, Deleted
  <2>3. ASSUME NEW f \in Entries, NEW r \in Reversals(f)' PROVE r \in Reversals(f)
    <3>1. /\ r \in Entries /\ entry'[r].status = "posted" /\ entry'[r].reverses = f
          /\ f # NoEntry
      BY <2>3 DEF Reversals
    <3> QED
      BY <2>2, <3>1 DEF Reversals
  <2> QED
    BY <1>1, <1>3, <1>7, <2>1, <2>2, <2>3
<1>8. CASE sess[s].op = "voidDocument" /\ SetStatus(e, "void")
  <2>1. entry[e].doc \in Docs
    BY <1>1, <1>2, <1>8 DEF Meets
  <2>2. entry[e].status \in {"posted", "void"}
    BY <1>3, <2>1 DEF Kept, Documented
  <2>3. e \in Live
    BY <1>3, <2>2 DEF Live
  <2>4. Reversals(e) = {}
    BY <1>3, <2>1 DEF Kept, Pointed, Reversals
  <2> QED
    BY <1>1, <1>3, <1>4, <1>8, <2>2, <2>3, <2>4
<1> QED
  BY <1>1, <1>5, <1>6, <1>7, <1>8 DEF Write

(* What is posted stays posted or is voided, and what is void stays void,    *)
(* unless a request commits on what another has changed under it.            *)
THEOREM PostedStaysOrIsVoided == Spec => HistoryStands
<1>1. ASSUME Kept, [Next]_vars, NEW s \in Sessions, Ends(s, {"entry"}), NEW e \in Entries
      PROVE  /\ entry[e].status = "posted" => entry'[e].status \in {"posted", "void"}
             /\ entry[e].status = "void" => entry'[e].status = "void"
  <2>1. CASE UNCHANGED entry
    BY <2>1
  <2>2. CASE Insert(s)
    <3>1. PICK n \in Unused : entry' = [entry EXCEPT ![n] = NewRow(s)] /\ entry[n].status = "none"
      BY <1>1, <2>2, Inserted
    <3>2. entry[e].status # "none" => entry'[e] = entry[e]
      BY <1>1, <3>1 DEF Kept, JournalTypeOK
    <3> QED
      BY <3>2
  <2>3. CASE Write(s)
    <3>1. "entry" \notin sess[s].lost
      BY <1>1 DEF Ends
    <3> QED
      BY <1>1, <2>3, <3>1, Written
  <2>4. CASE Next
    BY <1>1, <2>1, <2>2, <2>3, <2>4, OwnStep DEF Ends
  <2> QED
    BY <1>1, <2>1, <2>4 DEF vars
<1>2. Kept /\ [Next]_vars =>
        [\A s \in Sessions : Ends(s, {"entry"}) => \A e \in Entries :
           /\ entry[e].status = "posted" => entry'[e].status \in {"posted", "void"}
           /\ entry[e].status = "void" => entry'[e].status = "void"]_vars
  BY <1>1
<1> QED
  BY <1>2, AlwaysKept, PTL DEF Spec, HistoryStands

(* Fewer reversals are not more of them.                                     *)
LEMMA FewerReversals ==
  ASSUME Kept, NEW e \in Entries, Reversals(e)' \subseteq Reversals(e),
         entry'[e].status = "void" => entry[e].status = "void"
  PROVE  ~(Corrections(e)' > Corrections(e))
<1>1. Reversals(e) \subseteq Live
  BY DEF Reversals, Live
<1>2. IsFiniteSet(Reversals(e))
  BY <1>1, FS_Subset DEF Kept, Finite
<1>3. /\ IsFiniteSet(Reversals(e)')
      /\ Cardinality(Reversals(e)') <= Cardinality(Reversals(e))
  BY <1>2, FS_Subset
<1>4. Cardinality(Reversals(e)') \in Nat /\ Cardinality(Reversals(e)) \in Nat
  BY <1>2, <1>3, FS_CardinalityType
<1>5. /\ Corrections(e) = Cardinality(Reversals(e)) + (IF entry[e].status = "void" THEN 1 ELSE 0)
      /\ Corrections(e)' = Cardinality(Reversals(e)') + (IF entry'[e].status = "void" THEN 1 ELSE 0)
  BY DEF Corrections
<1> QED
  BY <1>3, <1>4, <1>5

(* An entry that has a void or a reversal is not given another, under the    *)
(* same exception.                                                           *)
THEOREM NotCorrectedTwice == Spec => CorrectedOnce
<1>1. ASSUME Kept, [Next]_vars, NEW s \in Sessions, Ends(s, {"entry"}), NEW e \in Entries,
             Corrections(e)' > Corrections(e)
      PROVE  Corrections(e) = 0
  <2>0. entry[e].status # "void" /\ Reversals(e) = {} => Corrections(e) = 0
    BY FS_EmptySet DEF Corrections
  <2>1. CASE UNCHANGED entry
    <3>1. Reversals(e)' = Reversals(e)
      BY <2>1 DEF Reversals
    <3> QED
      BY <1>1, <2>1, <3>1, FewerReversals
  <2>2. CASE Insert(s)
    <3>1. PICK n \in Unused :
           /\ entry' = [entry EXCEPT ![n] = NewRow(s)]
           /\ NewRow(s).status = IF sess[s].op = "draft" THEN "draft" ELSE "posted"
           /\ NewRow(s).reverses = IF sess[s].op = "reverse" THEN sess[s].id ELSE NoEntry
           /\ n \in Entries /\ entry[n].status = "none"
      BY <1>1, <2>2, Inserted
    <3>2. entry'[n] = NewRow(s) /\ \A f \in Entries \ {n} : entry'[f] = entry[f]
      BY <1>1, <3>1 DEF Kept, JournalTypeOK
    <3>3. entry'[e].status = "void" => entry[e].status = "void"
      BY <3>1, <3>2
    <3>4. CASE sess[s].op = "reverse" /\ sess[s].id = e
      <4>1. Reads(sess[s])
        BY <1>1 DEF Kept, Asked
      <4>2. entry[e].status # "void" /\ Reversals(e) = {}
        BY <1>1, <3>4, <4>1 DEF Reads, Ends
      <4> QED
        BY <2>0, <4>2
    <3>5. CASE ~(sess[s].op = "reverse" /\ sess[s].id = e)
      <4>1. ASSUME NEW r \in Reversals(e)' PROVE r \in Reversals(e)
        <5>1. r \in Entries /\ entry'[r].status = "posted" /\ entry'[r].reverses = e
          BY <4>1 DEF Reversals
        <5>2. r # n
          BY <3>1, <3>2, <3>5, <5>1, JournalAssumption
        <5> QED
          BY <3>2, <5>1, <5>2 DEF Reversals
      <4> QED
        BY <1>1, <3>3, <4>1, FewerReversals
    <3> QED
      BY <3>4, <3>5
  <2>3. CASE Write(s)
    <3>1. "entry" \notin sess[s].lost
      BY <1>1 DEF Ends
    <3>2. PICK c \in Entries :
      /\ \A f \in Entries :
           /\ f # c => entry'[f].status = entry[f].status
           /\ Reversals(f)' \subseteq Reversals(f)
      /\ \/ entry'[c].status \in {"posted", "deleted"}
         \/ entry[c].status = "void"
         \/ Reversals(c) = {}
      BY <1>1, <2>3, <3>1, Written
    <3>3. CASE entry'[e].status = "void" => entry[e].status = "void"
      BY <1>1, <3>2, <3>3, FewerReversals
    <3>4. CASE ~(entry'[e].status = "void" => entry[e].status = "void")
      BY <2>0, <3>2, <3>4
    <3> QED
      BY <3>3, <3>4
  <2>4. CASE Next
    BY <1>1, <2>1, <2>2, <2>3, <2>4, OwnStep DEF Ends
  <2> QED
    BY <1>1, <2>1, <2>4 DEF vars
<1>2. Kept /\ [Next]_vars =>
        [\A s \in Sessions : Ends(s, {"entry"}) => \A e \in Entries :
           Corrections(e)' > Corrections(e) => Corrections(e) = 0]_vars
  BY <1>1
<1> QED
  BY <1>2, AlwaysKept, PTL DEF Spec, CorrectedOnce

(* The figures of a closed day stand, unless the day was closed or the entry *)
(* changed after the request had looked.                                     *)
THEOREM ClosedDaysAreKept == Spec => ClosedDaysStand
<1>1. ASSUME Kept, [Next]_vars, NEW s \in Sessions, Ends(s, {"close", "entry"}),
             NEW d \in Dates, Closed(d)
      PROVE  Books(d)' = Books(d)
  <2>0. "entry" \notin sess[s].lost /\ "close" \notin sess[s].lost
          /\ sess[s].lost \cap {"close", "entry"} = {} /\ ~Stage(s, "idle")
    BY <1>1 DEF Ends
  <2>1. CASE UNCHANGED entry
    BY <2>1 DEF Books
  <2>2. CASE Insert(s)
    <3>1. PICK n \in Unused :
           /\ entry' = [entry EXCEPT ![n] = NewRow(s)]
           /\ NewRow(s).date = sess[s].date
           /\ n \in Entries /\ entry[n].status = "none"
      BY <1>1, <2>2, Inserted
    <3>2. entry'[n] = NewRow(s) /\ \A f \in Entries \ {n} : entry'[f] = entry[f]
      BY <1>1, <3>1 DEF Kept, JournalTypeOK
    <3>3. ~Closed(sess[s].date)
      BY <1>1, <2>0, <2>2 DEF Kept, Asked, Reads, Insert, Stage
    <3>4. entry'[n].date # d
      BY <1>1, <3>1, <3>2, <3>3
    <3> QED
      BY <3>1, <3>2, <3>4 DEF Books
  <2>3. CASE Write(s)
    <3>1. PICK c \in Entries :
      /\ c = sess[s].id
      /\ \A f \in Entries :
           f # c => entry'[f].status = entry[f].status /\ entry'[f].date = entry[f].date
      /\ \/ /\ sess[s].op = "postDraft"
            /\ entry[c].status = "draft" /\ entry'[c].date = entry[c].date
         \/ entry[c].status = "draft" /\ entry'[c].status = "deleted"
         \/ /\ sess[s].op \in {"void", "voidDocument"}
            /\ entry'[c].status = "void"
      BY <1>1, <2>0, <2>3, Written
    <3>2. Reads(sess[s]) /\ sess[s].pc = "write"
      BY <1>1, <2>3 DEF Kept, Asked, Write, Stage
    <3>3. /\ sess[s].op \in {"postDraft", "void"} => entry[c].date # d
          /\ sess[s].op = "voidDocument" => entry[c].status = "void" \/ entry[c].date # d
      BY <1>1, <2>0, <3>1, <3>2 DEF Reads
    <3>4. c \in Books(d) <=> c \in Books(d)'
      BY <3>1, <3>3 DEF Books
    <3>5. \A f \in Entries \ {c} : f \in Books(d) <=> f \in Books(d)'
      BY <3>1 DEF Books
    <3>6. Books(d) \subseteq Entries /\ Books(d)' \subseteq Entries
      BY DEF Books
    <3> QED
      BY <3>4, <3>5, <3>6
  <2>4. CASE Next
    BY <1>1, <2>0, <2>1, <2>2, <2>3, <2>4, OwnStep DEF Ends
  <2> QED
    BY <1>1, <2>1, <2>4 DEF vars
<1>2. Kept /\ [Next]_vars =>
        [\A s \in Sessions : Ends(s, {"close", "entry"}) =>
           \A d \in Dates : Closed(d) => Books(d)' = Books(d)]_vars
  BY <1>1
<1> QED
  BY <1>2, AlwaysKept, PTL DEF Spec, ClosedDaysStand
=============================================================================
