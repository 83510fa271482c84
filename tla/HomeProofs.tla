----------------------------- MODULE HomeProofs -----------------------------
(***************************************************************************)
(* What Home shows, for any mail, page sizes, visits and changes between   *)
(* the pages: nothing is skipped, the ranking is the pure one, and the     *)
(* evaluation reports missing only what no section held.                   *)
(*                                                                         *)
(* The argument: what stayed in its place since its section was read is on *)
(* the screen, or it ranks after the cursor that the screen will ask with. *)
(***************************************************************************)
EXTENDS HomeSections, FiniteSetTheorems, TLAPS

-----------------------------------------------------------------------------
(* Home: what the pages hold.  A candidate is known by its section and its *)
(* mail, the candidates of one section are ranked by their distinct ids,   *)
(* and each entry has one leader.                                          *)

Entry == {Conversation(m) : m \in Mail}
Ranking == [entry : Entry, mail : Mail, section : Section, tier : {0, 1}, sort : Int, id : Int]
HomeRows == [entry : Entry, mail : Mail, at : Ranking, members : SUBSET Mail]
Clock == ingested \in [Mail -> Nat]

(* The candidate a mail is in a section.                                   *)
Stands(m, s) ==
  Candidate(m, s, IF s = 1 THEN Tier(m) ELSE 0,
            IF s = 0 \/ s = 2 THEN Traits[m].id
            ELSE IF s = 3 THEN 0 - ingested[m] ELSE 0 - Traits[m].sent)

LEMMA CandidatesKnown ==
  ASSUME NEW b, NEW c \in Candidates(b)
  PROVE  /\ c.section \in Section /\ c.mail \in Stored /\ c = Stands(c.mail, c.section)
         /\ c.section \in {1, 3} => c.mail \in Visible
<1>1. CASE c \in {Candidate(m, 0, 0, Traits[m].id) : m \in {x \in Stored : "due" \in Traits[x].work}}
  BY <1>1 DEF Stands, Candidate, Section
<1>2. CASE c \in {Candidate(m, 1, Tier(m), 0 - Traits[m].sent) :
                    m \in {x \in Visible : Signals(x) # {}}}
  BY <1>2 DEF Stands, Candidate, Section, Visible
<1>3. CASE c \in {Candidate(m, 2, 0, Traits[m].id) : m \in planned \cap Stored}
  BY <1>3 DEF Stands, Candidate, Section
<1>4. CASE c \in {Candidate(m, 3, 0, 0 - ingested[m]) :
                    m \in {x \in Visible : b > 0 /\ ingested[x] > b}}
  BY <1>4 DEF Stands, Candidate, Section, Visible
<1>5. CASE c \in {Candidate(m, 4, 0, 0 - Traits[m].sent) :
                    m \in {x \in Stored : "starred" \in Traits[x].work}}
  BY <1>5 DEF Stands, Candidate, Section
<1> QED BY <1>1, <1>2, <1>3, <1>4, <1>5 DEF Candidates

LEMMA CandidatesShown ==
  \A b : \A c \in Candidates(b) : c.section \in {1, 3} => c.mail \in Visible
BY CandidatesKnown

LEMMA StandsTyped ==
  ASSUME HomeAssumption, Clock, NEW m \in Mail, NEW s \in Section
  PROVE  /\ Stands(m, s) \in Ranking /\ Stands(m, s).mail = m /\ Stands(m, s).section = s
         /\ Stands(m, s).id = Traits[m].id /\ Stands(m, s).entry = Conversation(m)
<1>1. Tier(m) \in {0, 1}
  BY DEF Tier
<1>2. /\ Traits[m].id \in Int /\ 0 - Traits[m].sent \in Int /\ 0 - ingested[m] \in Int
      /\ Conversation(m) \in Entry
  BY DEF HomeAssumption, Clock, Entry
<1>3. \A t \in {0, 1}, v \in Int :
        /\ Candidate(m, s, t, v) \in Ranking /\ Candidate(m, s, t, v).mail = m
        /\ Candidate(m, s, t, v).section = s /\ Candidate(m, s, t, v).id = Traits[m].id
        /\ Candidate(m, s, t, v).entry = Conversation(m)
  BY <1>2 DEF Candidate, Ranking
<1>4. \E t \in {0, 1}, v \in Int : Stands(m, s) = Candidate(m, s, t, v)
  BY <1>1, <1>2 DEF Stands
<1> QED BY <1>3, <1>4

(* What is in its place in a section.                                      *)
LEMMA InPlaceKnown ==
  ASSUME HomeAssumption, Clock, NEW s, NEW b, NEW c \in InPlace(s, b)
  PROVE  /\ c \in Ranking /\ c.section = s /\ c.mail \in Stored /\ c.mail \in Mail
         /\ c.entry = Conversation(c.mail) /\ c.id = Traits[c.mail].id /\ s \in Section
         /\ c = Stands(c.mail, s)
         /\ s \in {1, 3} => c.mail \in Visible
<1>1. c \in Candidates(b) /\ c.section = s
  BY DEF InPlace, Leaders
<1>2. c.mail \in Mail
  BY <1>1, CandidatesKnown DEF Stored
<1> QED BY <1>1, <1>2, CandidatesKnown, StandsTyped

LEMMA RanksDiffer ==
  ASSUME HomeAssumption, NEW c \in Ranking, NEW d \in Ranking, c.id # d.id
  PROVE  (RankedBefore(c, d) \/ RankedBefore(d, c)) /\ ~(RankedBefore(c, d) /\ RankedBefore(d, c))
<1>1. /\ c.tier \in Int /\ d.tier \in Int /\ c.sort \in Int /\ d.sort \in Int
      /\ c.id \in Int /\ d.id \in Int
  BY DEF Ranking
<1> QED BY <1>1 DEF RankedBefore

LEMMA RanksFollow ==
  ASSUME NEW c \in Ranking, NEW d \in Ranking, NEW e \in Ranking,
         RankedBefore(c, d), RankedBefore(d, e)
  PROVE  RankedBefore(c, e)
<1>1. /\ c.tier \in Int /\ d.tier \in Int /\ e.tier \in Int
      /\ c.sort \in Int /\ d.sort \in Int /\ e.sort \in Int
      /\ c.id \in Int /\ d.id \in Int /\ e.id \in Int
  BY DEF Ranking
<1> QED BY <1>1 DEF RankedBefore

LEMMA NotBeforeItself == ASSUME NEW c \in Ranking PROVE ~RankedBefore(c, c)
<1>1. c.tier \in Int /\ c.sort \in Int /\ c.id \in Int
  BY DEF Ranking
<1> QED BY <1>1 DEF RankedBefore

(* An entry has one leader.                                                *)
LEMMA OneLeader ==
  ASSUME HomeAssumption, Clock, NEW s, NEW b, NEW c \in InPlace(s, b), NEW d \in InPlace(s, b)
  PROVE  /\ c.mail = d.mail => c = d
         /\ c.entry = d.entry => c = d
<1>1. c \in Leaders(b) /\ d \in Leaders(b) /\ c.section = s /\ d.section = s
  BY DEF InPlace
<1>2. c.mail = d.mail => c = d
  <2>1. c = Stands(c.mail, s) /\ d = Stands(d.mail, s)
    BY InPlaceKnown
  <2> QED BY <2>1
<1>3. ASSUME c.entry = d.entry, c # d PROVE FALSE
  <2>1. LeadsOver(c, d) /\ LeadsOver(d, c)
    BY <1>1, <1>3 DEF Leaders
  <2>2. ~(c.section < d.section) /\ ~(d.section < c.section)
    BY <1>1, InPlaceKnown DEF Section
  <2>3. RankedBefore(c, d) /\ RankedBefore(d, c)
    BY <2>1, <2>2 DEF LeadsOver
  <2>4. c.id # d.id
    BY <1>2, <1>3, InPlaceKnown DEF HomeAssumption
  <2> QED BY <2>3, <2>4, RanksDiffer, InPlaceKnown
<1> QED BY <1>2, <1>3

-----------------------------------------------------------------------------
(* Rows in the order of their ranks.                                       *)

(* A set of rows that stand for different mail.                            *)
Orderly(R) ==
  /\ R \subseteq HomeRows
  /\ \A r \in R : r.at.mail = r.mail /\ r.at.id = Traits[r.mail].id /\ r.at.entry = r.entry
  /\ \A q, r \in R : q.mail = r.mail => q = r
Earlier(R, r) == {q \in R : RankedBefore(q.at, r.at)}

LEMMA OrderlyFinite ==
  ASSUME HomeAssumption, NEW R, Orderly(R)
  PROVE  /\ IsFiniteSet(R) /\ Cardinality(R) \in Nat
         /\ \A q, r \in R : q # r => q.at.id # r.at.id
<1> DEFINE f == [r \in R |-> r.mail]
<1>1. f \in [R -> Mail] /\ \A q, r \in R : f[q] = f[r] => q = r
  BY DEF Orderly, HomeRows
<1>2. f \in Injection(R, Mail)
  BY <1>1 DEF Injection, IsInjective
<1>3. IsFiniteSet(Mail)
  BY DEF HomeAssumption
<1>4. IsFiniteSet(R)
  BY <1>2, <1>3, FS_Injection
<1>5. ASSUME NEW q \in R, NEW r \in R, q # r PROVE q.at.id # r.at.id
  <2>1. q.mail \in Mail /\ r.mail \in Mail /\ q.mail # r.mail
    BY <1>5 DEF Orderly, HomeRows
  <2> QED BY <2>1 DEF Orderly, HomeAssumption
<1> QED BY <1>4, <1>5, FS_CardinalityType

LEMMA EarlierGrows ==
  ASSUME HomeAssumption, NEW R, Orderly(R), NEW q \in R, NEW r \in R, RankedBefore(q.at, r.at)
  PROVE  Cardinality(Earlier(R, q)) < Cardinality(Earlier(R, r))
<1> DEFINE A == Earlier(R, q)
           B == Earlier(R, r)
<1>1. IsFiniteSet(R)
  BY OrderlyFinite
<1>2. B \in SUBSET R
  BY DEF Earlier
<1>3. IsFiniteSet(B)
  BY <1>1, <1>2, FS_Subset
<1>4. \A x \in R : x.at \in Ranking
  BY DEF Orderly, HomeRows
<1>5. A \subseteq B
  <2>1. \A x \in R : RankedBefore(x.at, q.at) => RankedBefore(x.at, r.at)
    BY <1>4, RanksFollow
  <2> QED BY <2>1 DEF Earlier
<1>6. q \in B /\ q \notin A
  BY <1>4, NotBeforeItself DEF Earlier
<1>7. A # B
  BY <1>6
<1> HIDE DEF A, B
<1>8. Cardinality(A) <= Cardinality(B) /\ (Cardinality(B) = Cardinality(A) => B = A) /\ IsFiniteSet(A)
  BY <1>3, <1>5, FS_Subset
<1>9. Cardinality(A) \in Nat /\ Cardinality(B) \in Nat
  BY <1>3, <1>8, FS_CardinalityType
<1>10. Cardinality(A) < Cardinality(B)
  BY <1>7, <1>8, <1>9
<1> QED BY <1>10 DEF A, B

LEMMA EarlierCounts ==
  ASSUME HomeAssumption, NEW R, Orderly(R), NEW r \in R
  PROVE  Cardinality(Earlier(R, r)) \in Nat /\ Cardinality(Earlier(R, r)) < Cardinality(R)
<1> DEFINE A == Earlier(R, r)
<1>1. IsFiniteSet(R) /\ Cardinality(R) \in Nat
  BY OrderlyFinite
<1>2. A \in SUBSET R /\ r \notin A
  <2>1. r.at \in Ranking
    BY DEF Orderly, HomeRows
  <2> QED BY <2>1, NotBeforeItself DEF Earlier
<1> HIDE DEF A
<1>3. IsFiniteSet(A) /\ Cardinality(A) <= Cardinality(R) /\ (Cardinality(R) = Cardinality(A) => R = A)
  BY <1>1, <1>2, FS_Subset
<1>4. Cardinality(A) \in Nat
  BY <1>3, FS_CardinalityType
<1>5. Cardinality(A) < Cardinality(R)
  BY <1>1, <1>2, <1>3, <1>4
<1> QED BY <1>4, <1>5 DEF A

LEMMA RowsCompare ==
  ASSUME HomeAssumption, NEW R, Orderly(R), NEW q \in R, NEW r \in R, q # r
  PROVE  RankedBefore(q.at, r.at) \/ RankedBefore(r.at, q.at)
<1>1. q.at \in Ranking /\ r.at \in Ranking /\ q.at.id # r.at.id
  BY OrderlyFinite DEF Orderly, HomeRows
<1> QED BY <1>1, RanksDiffer

LEMMA EarlierDecides ==
  ASSUME HomeAssumption, NEW R, Orderly(R), NEW q \in R, NEW r \in R
  PROVE  /\ Cardinality(Earlier(R, q)) = Cardinality(Earlier(R, r)) => q = r
         /\ Cardinality(Earlier(R, q)) < Cardinality(Earlier(R, r)) => RankedBefore(q.at, r.at)
<1>1. Cardinality(Earlier(R, q)) \in Nat /\ Cardinality(Earlier(R, r)) \in Nat
  BY EarlierCounts
<1>2. q # r => \/ Cardinality(Earlier(R, q)) < Cardinality(Earlier(R, r)) /\ RankedBefore(q.at, r.at)
               \/ Cardinality(Earlier(R, r)) < Cardinality(Earlier(R, q))
  BY RowsCompare, EarlierGrows
<1> QED BY <1>1, <1>2

(* Every place of a page is taken.                                         *)
LEMMA PlacesTaken ==
  ASSUME HomeAssumption, NEW R, Orderly(R), NEW i \in 1 .. Cardinality(R)
  PROVE  \E r \in R : Cardinality(Earlier(R, r)) = i - 1
<1> DEFINE f == [r \in R |-> Cardinality(Earlier(R, r)) + 1]
           T == 1 .. Cardinality(R)
<1>1. Cardinality(R) \in Nat
  BY OrderlyFinite
<1>2. IsFiniteSet(T) /\ Cardinality(T) = Cardinality(R)
  BY <1>1, FS_Interval
<1>3. f \in [R -> T]
  <2> SUFFICES ASSUME NEW r \in R PROVE Cardinality(Earlier(R, r)) + 1 \in T
    OBVIOUS
  <2> QED BY <1>1, EarlierCounts
<1>4. ASSUME NEW q \in R, NEW r \in R, f[q] = f[r] PROVE q = r
  <2>1. Cardinality(Earlier(R, q)) \in Nat /\ Cardinality(Earlier(R, r)) \in Nat
    BY EarlierCounts
  <2>2. Cardinality(Earlier(R, q)) = Cardinality(Earlier(R, r))
    BY <1>4, <2>1
  <2> QED BY <2>2, EarlierDecides
<1>5. f \in Injection(R, T)
  BY <1>3, <1>4 DEF Injection, IsInjective
<1>6. f \in Surjection(R, T)
  BY <1>2, <1>5, FS_Injection
<1>7. PICK r \in R : f[r] = i
  BY <1>6 DEF Surjection
<1> QED BY <1>7, EarlierCounts

LEMMA InOrderHolds ==
  ASSUME HomeAssumption, NEW R, Orderly(R)
  PROVE  /\ InOrder(R) \in Seq(R) /\ Len(InOrder(R)) = Cardinality(R)
         /\ {InOrder(R)[i] : i \in DOMAIN InOrder(R)} = R
         /\ \A i, j \in DOMAIN InOrder(R) :
              i < j => RankedBefore(InOrder(R)[i].at, InOrder(R)[j].at)
<1> DEFINE n == Cardinality(R)
           s == InOrder(R)
           at(i) == CHOOSE r \in R : Cardinality({q \in R : RankedBefore(q.at, r.at)}) = i - 1
<1>1. n \in Nat
  BY OrderlyFinite
<1>2. ASSUME NEW i \in 1 .. n PROVE at(i) \in R /\ Cardinality(Earlier(R, at(i))) = i - 1
  BY PlacesTaken DEF Earlier
<1>3. s = [i \in 1 .. n |-> at(i)]
  BY DEF InOrder
<1> HIDE DEF at, s
<1>4. s \in [1 .. n -> R] /\ DOMAIN s = 1 .. n
      /\ \A i \in 1 .. n : s[i] \in R /\ Cardinality(Earlier(R, s[i])) = i - 1
  BY <1>2, <1>3
<1> HIDE DEF n
<1>5. s \in Seq(R) /\ Len(s) = n
  BY <1>1, <1>4
<1>6. ASSUME NEW i \in 1 .. n, NEW j \in 1 .. n, i < j PROVE RankedBefore(s[i].at, s[j].at)
  <2>1. Cardinality(Earlier(R, s[i])) < Cardinality(Earlier(R, s[j]))
    BY <1>4, <1>6
  <2> QED BY <1>4, <2>1, EarlierDecides
<1>7. ASSUME NEW r \in R PROVE \E i \in 1 .. n : s[i] = r
  <2> DEFINE i == Cardinality(Earlier(R, r)) + 1
  <2>1. i \in 1 .. n /\ Cardinality(Earlier(R, r)) = i - 1
    BY <1>1, EarlierCounts DEF n
  <2> HIDE DEF i
  <2>2. s[i] = r
    BY <1>4, <2>1, EarlierDecides
  <2> QED BY <2>1, <2>2
<1> QED BY <1>4, <1>5, <1>6, <1>7 DEF n, s

-----------------------------------------------------------------------------
(* What a page holds: rows of different mail, in order; and a candidate in *)
(* its place after the cursor is one of them, or ranks after the next      *)
(* cursor.                                                                 *)

(* A page of a section with regard to some candidates: none is left out    *)
(* between the cursor and the next one, and a row of its entry is its own. *)
RowOf(r, c) == r.entry = c.entry => r.mail = c.mail /\ c.mail \in r.members
OwnRows(rows, C) == \A c \in C : \A i \in DOMAIN rows : RowOf(rows[i], c)
Goes(rows, next, c) ==
  c.entry \in Entries(rows) \/ (next # None /\ RankedBefore(next, c))
Covers(rows, next, C) == \A c \in C : Goes(rows, next, c)
CoversFrom(last, rows, next, C) == \A c \in C : RankedBefore(last, c) => Goes(rows, next, c)

Pages == [rows : Seq(HomeRows), next : Ranking \cup {None}]
PageTyped(p) ==
  /\ p \in Pages
  /\ Orderly({p.rows[i] : i \in DOMAIN p.rows})

LEMMA NoneIsNoRank == None \notin Ranking
<1>1. ASSUME None \in Ranking PROVE FALSE
  <2>1. DOMAIN None = {"none"}
    BY DEF None
  <2>2. \A c \in Ranking : "entry" \in DOMAIN c
    BY DEF Ranking
  <2>3. "entry" \in {"none"}
    BY <1>1, <2>1, <2>2
  <2> QED BY <2>3
<1> QED BY <1>1

LEMMA RowsOfPlace ==
  ASSUME HomeAssumption, Clock, NEW s, NEW b, NEW C, C \subseteq InPlace(s, b)
  PROVE  /\ Orderly({HomeRow(c) : c \in C})
         /\ \A c \in InPlace(s, b), d \in C : RowOf(HomeRow(d), c)
<1>1. ASSUME NEW c \in C
      PROVE  /\ HomeRow(c) \in HomeRows /\ HomeRow(c).at = c /\ HomeRow(c).mail = c.mail
             /\ HomeRow(c).entry = c.entry /\ HomeRow(c).members = Members(c.entry)
  <2>1. c \in Ranking
    BY InPlaceKnown
  <2>2. c.entry \in Entry /\ c.mail \in Mail
    BY <2>1 DEF Ranking
  <2>3. Members(c.entry) \in SUBSET Mail
    BY DEF Members, Stored
  <2> QED BY <2>1, <2>2, <2>3 DEF HomeRow, HomeRows
<1>2. ASSUME NEW c \in C PROVE c.id = Traits[c.mail].id
  BY InPlaceKnown
<1>3. ASSUME NEW c \in C, NEW d \in C, HomeRow(c).mail = HomeRow(d).mail
      PROVE  HomeRow(c) = HomeRow(d)
  <2>1. c = d
    BY <1>1, <1>3, OneLeader
  <2> QED BY <2>1
<1>4. Orderly({HomeRow(c) : c \in C})
  <2> DEFINE R == {HomeRow(c) : c \in C}
  <2>1. R \subseteq HomeRows
    BY <1>1
  <2>2. \A r \in R : r.at.mail = r.mail /\ r.at.id = Traits[r.mail].id /\ r.at.entry = r.entry
    BY <1>1, <1>2
  <2>3. \A q, r \in R : q.mail = r.mail => q = r
    BY <1>3
  <2> HIDE DEF R
  <2> QED BY <2>1, <2>2, <2>3 DEF Orderly, R
<1>5. ASSUME NEW c \in InPlace(s, b), NEW d \in C PROVE RowOf(HomeRow(d), c)
  <2> SUFFICES ASSUME HomeRow(d).entry = c.entry
               PROVE  HomeRow(d).mail = c.mail /\ c.mail \in HomeRow(d).members
    BY DEF RowOf
  <2>1. c = d
    BY <1>1, OneLeader
  <2>2. c.mail \in Members(c.entry)
    BY InPlaceKnown DEF Members
  <2> QED BY <1>1, <2>1, <2>2
<1> QED BY <1>4, <1>5

LEMMA PageGives ==
  ASSUME HomeAssumption, Clock, NEW s, NEW b, NEW after \in Ranking \cup {None},
         NEW limit \in Nat \ {0}, NEW C, C \subseteq InPlace(s, b)
  PROVE  LET p == Page(s, b, after, limit)
         IN  /\ PageTyped(p) /\ OwnRows(p.rows, C)
             /\ after = None => Covers(p.rows, p.next, C)
             /\ after # None => CoversFrom(after, p.rows, p.next, C)
<1> DEFINE F == FromCursor(s, b, after)
           R == {HomeRow(c) : c \in F}
           rest == InOrder(R)
           p == Page(s, b, after, limit)
<1>1. F \subseteq InPlace(s, b)
  BY DEF FromCursor
<1>2. Orderly(R) /\ \A c \in InPlace(s, b), d \in F : RowOf(HomeRow(d), c)
  BY <1>1, RowsOfPlace
<1>3. \A c \in F : c \in Ranking /\ HomeRow(c).at = c /\ HomeRow(c).entry = c.entry
  BY <1>1, InPlaceKnown DEF HomeRow
<1>4. \A c \in C : after = None \/ RankedBefore(after, c) => c \in F
  BY DEF FromCursor, CursorAfter
<1> HIDE DEF F
<1>5. \A r \in R : \A c \in C : RowOf(r, c)
  BY <1>2
<1>6. \A c \in F : HomeRow(c) \in R
  OBVIOUS
<1>7. R \subseteq HomeRows
  BY <1>2 DEF Orderly
<1> HIDE DEF R
<1>8. /\ rest \in Seq(R) /\ Len(rest) \in Nat /\ DOMAIN rest = 1 .. Len(rest)
      /\ {rest[i] : i \in DOMAIN rest} = R
      /\ \A i, j \in DOMAIN rest : i < j => RankedBefore(rest[i].at, rest[j].at)
  BY <1>2, InOrderHolds
<1>9. p = IF Len(rest) > limit THEN [rows |-> SubSeq(rest, 1, limit), next |-> rest[limit].at]
          ELSE [rows |-> rest, next |-> None]
  BY DEF Page, R, F
<1> HIDE DEF rest, p
<1>10. CASE Len(rest) > limit
  <2>1. p.rows = SubSeq(rest, 1, limit) /\ p.next = rest[limit].at
    BY <1>9, <1>10
  <2>2. /\ p.rows \in Seq(R) /\ Len(p.rows) = limit /\ DOMAIN p.rows = 1 .. limit
        /\ \A i \in 1 .. limit : p.rows[i] = rest[i] /\ rest[i] \in R
    BY <1>8, <1>10, <2>1
  <2>3. rest[limit].at \in Ranking /\ rest[limit].at # None
    BY <1>7, <2>2, NoneIsNoRank DEF HomeRows
  <2>4. ASSUME NEW c \in C, c \in F PROVE Goes(p.rows, p.next, c)
    <3>1. PICK i \in 1 .. Len(rest) : rest[i] = HomeRow(c)
      BY <1>6, <1>8, <2>4
    <3>2. CASE i <= limit
      <4>1. i \in DOMAIN p.rows /\ p.rows[i] = HomeRow(c)
        BY <2>2, <3>1, <3>2
      <4> QED BY <1>3, <2>4, <4>1 DEF Goes, Entries
    <3>3. CASE limit < i
      <4>1. RankedBefore(rest[limit].at, rest[i].at)
        BY <1>8, <1>10, <3>1, <3>3
      <4> QED BY <1>3, <2>1, <2>3, <2>4, <3>1, <4>1 DEF Goes
    <3> QED BY <3>1, <3>2, <3>3
  <2>5. {p.rows[i] : i \in DOMAIN p.rows} \subseteq R /\ \A i \in DOMAIN p.rows : p.rows[i] \in R
    BY <2>2
  <2>6. Orderly({p.rows[i] : i \in DOMAIN p.rows})
    BY <1>2, <2>5 DEF Orderly
  <2>7. p.rows \in Seq(HomeRows)
    BY <1>7, <2>2
  <2>8. PageTyped(p)
    BY <1>9, <1>10, <2>1, <2>3, <2>6, <2>7 DEF PageTyped, Pages
  <2>9. OwnRows(p.rows, C)
    BY <1>5, <2>5 DEF OwnRows
  <2> QED BY <1>4, <2>4, <2>8, <2>9 DEF Covers, CoversFrom, p
<1>11. CASE ~(Len(rest) > limit)
  <2>1. p.rows = rest /\ p.next = None
    BY <1>9, <1>11
  <2>2. \A i \in DOMAIN rest : rest[i] \in R
    BY <1>8
  <2>3. ASSUME NEW c \in C, c \in F PROVE Goes(p.rows, p.next, c)
    <3>1. PICK i \in DOMAIN rest : rest[i] = HomeRow(c)
      BY <1>6, <1>8, <2>3
    <3> QED BY <1>3, <2>1, <2>3, <3>1 DEF Goes, Entries
  <2>4. Orderly({p.rows[i] : i \in DOMAIN p.rows})
    BY <1>2, <1>8, <2>1
  <2>5. p.rows \in Seq(HomeRows)
    BY <1>7, <1>8, <2>1
  <2>6. PageTyped(p)
    BY <1>9, <1>11, <2>1, <2>4, <2>5 DEF PageTyped, Pages
  <2>7. OwnRows(p.rows, C)
    BY <1>5, <2>1, <2>2 DEF OwnRows
  <2> QED BY <1>4, <2>3, <2>6, <2>7 DEF Covers, CoversFrom, p
<1> QED BY <1>10, <1>11

LEMMA Joined ==
  ASSUME NEW S, NEW u \in Seq(S), NEW v \in Seq(S)
  PROVE  /\ u \o v \in Seq(S) /\ Len(u \o v) = Len(u) + Len(v)
         /\ \A i \in 1 .. Len(u) : (u \o v)[i] = u[i]
         /\ \A i \in 1 .. Len(v) : (u \o v)[Len(u) + i] = v[i]
OBVIOUS

(* Merging a page keeps what is shown and adds the entries that are new.   *)
LEMMA MergeHolds ==
  ASSUME HomeAssumption, NEW rows \in Seq(HomeRows), NEW q, PageTyped(q)
  PROVE  /\ MergeItems(rows, q.rows) \in Seq(HomeRows)
         /\ Entries(MergeItems(rows, q.rows)) = Entries(rows) \cup Entries(q.rows)
         /\ \A C : OwnRows(rows, C) /\ OwnRows(q.rows, C) => OwnRows(MergeItems(rows, q.rows), C)
<1> DEFINE page == q.rows
           again(e) == UNION {page[i].members : i \in {j \in DOMAIN page : page[j].entry = e}}
           left == [i \in DOMAIN rows |-> [rows[i] EXCEPT !.members = @ \cup again(rows[i].entry)]]
           N == {r \in {page[i] : i \in DOMAIN page} : r.entry \notin Entries(rows)}
           right == InOrder(N)
           both == MergeItems(rows, page)
<1>1. both = left \o right
  BY DEF MergeItems
<1>2. page \in Seq(HomeRows) /\ Orderly({page[i] : i \in DOMAIN page})
  BY DEF PageTyped, Pages
<1>3. \A i \in DOMAIN page : page[i] \in HomeRows
  BY <1>2
<1>4. \A e : again(e) \in SUBSET Mail
  BY <1>3 DEF HomeRows
<1>5. \A i \in DOMAIN rows : rows[i] \in HomeRows
  OBVIOUS
<1>6. ASSUME NEW i \in DOMAIN rows
      PROVE  /\ left[i] \in HomeRows /\ left[i].entry = rows[i].entry
             /\ left[i].mail = rows[i].mail /\ rows[i].members \subseteq left[i].members
  <2>1. left[i] = [rows[i] EXCEPT !.members = @ \cup again(rows[i].entry)]
    OBVIOUS
  <2>2. again(rows[i].entry) \in SUBSET Mail
    BY <1>4
  <2> HIDE DEF again, left
  <2> QED BY <1>5, <2>1, <2>2 DEF HomeRows
<1>7. DOMAIN left = DOMAIN rows /\ DOMAIN rows = 1 .. Len(rows) /\ Len(rows) \in Nat
  OBVIOUS
<1> HIDE DEF left, again
<1>8. left \in Seq(HomeRows) /\ Len(left) = Len(rows)
  <2>1. left \in [1 .. Len(rows) -> HomeRows]
    <3>1. left = [i \in DOMAIN rows |-> left[i]]
      BY DEF left
    <3> QED BY <1>6, <1>7, <3>1
  <2> QED BY <1>7, <2>1
<1>9. Orderly(N) /\ N \subseteq HomeRows
  BY <1>2 DEF Orderly
<1>10. \A r \in N : r \in {page[i] : i \in DOMAIN page}
  OBVIOUS
<1>11. {r.entry : r \in N} = Entries(page) \ Entries(rows)
  BY DEF Entries
<1> HIDE DEF N
<1>12. /\ right \in Seq(N) /\ {right[i] : i \in DOMAIN right} = N
       /\ DOMAIN right = 1 .. Len(right) /\ Len(right) \in Nat
  BY <1>9, InOrderHolds
<1>13. right \in Seq(HomeRows)
  BY <1>9, <1>12
<1> HIDE DEF right
<1>14. /\ both \in Seq(HomeRows) /\ DOMAIN both = 1 .. Len(rows) + Len(right)
       /\ \A i \in 1 .. Len(rows) : both[i] = left[i]
       /\ \A i \in 1 .. Len(right) : both[Len(rows) + i] = right[i]
  <2>1. /\ both \in Seq(HomeRows) /\ Len(both) = Len(left) + Len(right)
        /\ \A i \in 1 .. Len(left) : both[i] = left[i]
        /\ \A i \in 1 .. Len(right) : both[Len(left) + i] = right[i]
    <3>1. left \o right \in Seq(HomeRows) /\ Len(left \o right) = Len(left) + Len(right)
      BY <1>8, <1>13, Joined
    <3>2. /\ \A i \in 1 .. Len(left) : (left \o right)[i] = left[i]
          /\ \A i \in 1 .. Len(right) : (left \o right)[Len(left) + i] = right[i]
      BY <1>8, <1>13, Joined
    <3> QED BY <1>1, <3>1, <3>2
  <2>2. DOMAIN both = 1 .. Len(both)
    BY <2>1
  <2> QED BY <1>8, <2>1, <2>2
<1> HIDE DEF both
<1>15. ASSUME NEW i \in DOMAIN both
       PROVE  (i \in DOMAIN rows /\ both[i] = left[i])
                \/ (\E j \in DOMAIN right : both[i] = right[j])
  <2>1. CASE i <= Len(rows)
    BY <1>7, <1>14, <2>1
  <2>2. CASE i > Len(rows)
    <3>1. i - Len(rows) \in 1 .. Len(right) /\ i = Len(rows) + (i - Len(rows))
      BY <1>7, <1>12, <1>14, <2>2
    <3> QED BY <1>12, <1>14, <3>1
  <2> QED BY <1>7, <1>14, <2>1, <2>2
<1>16. /\ \A i \in DOMAIN rows : i \in DOMAIN both /\ both[i] = left[i]
       /\ \A j \in DOMAIN right : \E i \in DOMAIN both : both[i] = right[j]
  <2>1. \A i \in DOMAIN rows : i \in DOMAIN both /\ both[i] = left[i]
    BY <1>7, <1>12, <1>14
  <2>2. ASSUME NEW j \in DOMAIN right PROVE \E i \in DOMAIN both : both[i] = right[j]
    <3>1. Len(rows) + j \in DOMAIN both
      BY <1>7, <1>12, <1>14
    <3> QED BY <1>12, <1>14, <3>1
  <2> QED BY <2>1, <2>2
<1>17. Entries(both) = Entries(rows) \cup Entries(page)
  <2>1. Entries(both) \subseteq Entries(rows) \cup Entries(page)
    <3> SUFFICES ASSUME NEW i \in DOMAIN both
                 PROVE  both[i].entry \in Entries(rows) \cup Entries(page)
      BY DEF Entries
    <3>1. CASE i \in DOMAIN rows /\ both[i] = left[i]
      BY <1>6, <3>1 DEF Entries
    <3>2. ASSUME NEW j \in DOMAIN right, both[i] = right[j]
          PROVE  both[i].entry \in Entries(page)
      BY <1>11, <1>12, <3>2
    <3> QED BY <1>15, <3>1, <3>2
  <2>2. Entries(rows) \subseteq Entries(both)
    BY <1>6, <1>16 DEF Entries
  <2>3. Entries(page) \ Entries(rows) \subseteq Entries(both)
    <3>1. \A r \in N : \E i \in DOMAIN both : both[i] = r
      BY <1>12, <1>16
    <3>2. \A r \in N : r.entry \in Entries(both)
      BY <3>1 DEF Entries
    <3>3. \A e \in Entries(page) \ Entries(rows) : \E r \in N : r.entry = e
      BY <1>11
    <3> QED BY <3>2, <3>3
  <2> QED BY <2>1, <2>2, <2>3
<1>18. ASSUME NEW C, OwnRows(rows, C), OwnRows(page, C) PROVE OwnRows(both, C)
  <2> SUFFICES ASSUME NEW c \in C, NEW i \in DOMAIN both PROVE RowOf(both[i], c)
    BY DEF OwnRows
  <2>1. CASE i \in DOMAIN rows /\ both[i] = left[i]
    <3>1. RowOf(rows[i], c)
      BY <1>18, <2>1 DEF OwnRows
    <3> QED BY <1>6, <2>1, <3>1 DEF RowOf
  <2>2. ASSUME NEW j \in DOMAIN right, both[i] = right[j] PROVE RowOf(both[i], c)
    <3>1. right[j] \in N
      BY <1>12
    <3>2. PICK k \in DOMAIN page : page[k] = right[j]
      BY <1>10, <3>1
    <3> QED BY <1>18, <2>2, <3>2 DEF OwnRows
  <2> QED BY <1>15, <2>1, <2>2
<1> QED BY <1>14, <1>17, <1>18 DEF both

(* A row that is taken away takes no other with it.                        *)
LEMMA RemovalHolds ==
  ASSUME NEW rows \in Seq(HomeRows), NEW i \in DOMAIN rows
  PROVE  LET rest == SubSeq(rows, 1, i - 1) \o SubSeq(rows, i + 1, Len(rows)) IN
         /\ rest \in Seq(HomeRows)
         /\ \A j \in DOMAIN rows : j # i => \E k \in DOMAIN rest : rest[k] = rows[j]
         /\ \A k \in DOMAIN rest : \E j \in DOMAIN rows : rest[k] = rows[j]
<1> DEFINE front == SubSeq(rows, 1, i - 1)
           back == SubSeq(rows, i + 1, Len(rows))
           rest == front \o back
<1>1. Len(rows) \in Nat /\ i \in 1 .. Len(rows) /\ DOMAIN rows = 1 .. Len(rows)
  OBVIOUS
<1>2. /\ front \in Seq(HomeRows) /\ Len(front) = i - 1
      /\ \A j \in 1 .. i - 1 : front[j] = rows[j]
  BY <1>1
<1>3. /\ back \in Seq(HomeRows) /\ Len(back) = Len(rows) - i
      /\ \A j \in 1 .. Len(rows) - i : back[j] = rows[i + j]
  BY <1>1
<1>4. rest = front \o back
  OBVIOUS
<1> HIDE DEF front, back, rest
<1>5. /\ rest \in Seq(HomeRows) /\ Len(rest) = Len(front) + Len(back)
      /\ \A j \in 1 .. Len(front) : rest[j] = front[j]
      /\ \A j \in 1 .. Len(back) : rest[Len(front) + j] = back[j]
  <2>1. /\ front \o back \in Seq(HomeRows)
        /\ Len(front \o back) = Len(front) + Len(back)
    BY <1>2, <1>3, Joined
  <2>2. \A j \in 1 .. Len(front) : (front \o back)[j] = front[j]
    BY <1>2, <1>3, Joined
  <2>4. front \in Seq(HomeRows) /\ back \in Seq(HomeRows)
    BY <1>2, <1>3
  <2>3. \A j \in 1 .. Len(back) : (front \o back)[Len(front) + j] = back[j]
    BY <2>4, Joined
  <2> QED BY <1>4, <2>1, <2>2, <2>3
<1>6. DOMAIN rest = 1 .. Len(rows) - 1
  BY <1>1, <1>2, <1>3, <1>5
<1>7. /\ \A j \in 1 .. i - 1 : rest[j] = rows[j]
      /\ \A j \in 1 .. Len(rows) - i : rest[(i - 1) + j] = rows[i + j]
  BY <1>1, <1>2, <1>3, <1>5
<1>8. ASSUME NEW j \in DOMAIN rows, j # i PROVE \E k \in DOMAIN rest : rest[k] = rows[j]
  <2>1. CASE j < i
    BY <1>1, <1>6, <1>7, <2>1
  <2>2. CASE j > i
    <3>1. j - i \in 1 .. Len(rows) - i /\ i + (j - i) = j
      BY <1>1, <2>2
    <3>2. rest[(i - 1) + (j - i)] = rows[j] /\ (i - 1) + (j - i) \in DOMAIN rest
      BY <1>1, <1>6, <1>7, <3>1
    <3> QED BY <3>2
  <2> QED BY <1>1, <1>8, <2>1, <2>2
<1>9. ASSUME NEW k \in DOMAIN rest PROVE \E j \in DOMAIN rows : rest[k] = rows[j]
  <2>1. CASE k <= i - 1
    BY <1>1, <1>6, <1>7, <2>1
  <2>2. CASE k > i - 1
    <3>1. k - (i - 1) \in 1 .. Len(rows) - i /\ (i - 1) + (k - (i - 1)) = k
      BY <1>1, <1>6, <2>2
    <3>2. i + (k - (i - 1)) \in DOMAIN rows
      BY <1>1, <3>1
    <3> QED BY <1>7, <3>1, <3>2
  <2> QED BY <1>1, <1>6, <2>1, <2>2
<1> QED BY <1>5, <1>8, <1>9 DEF front, back, rest

-----------------------------------------------------------------------------
(* The strengthening.  Every page that was read and has not been replaced  *)
(* covers what stayed in its place since: on the server until the answer   *)
(* is complete, on its way, and on the screen.                             *)

HomeTyped ==
  /\ Clock /\ begun \in [Mail -> Nat]
  /\ view = [phase |-> view.phase, boundary |-> view.boundary, rows |-> view.rows,
             next |-> view.next, loading |-> view.loading]
  /\ view.phase \in {"closed", "loading", "ready"}
  /\ view.rows \in [Section -> Seq(HomeRows)] /\ view.next \in [Section -> Ranking \cup {None}]
  /\ more = [s \in Section |-> more[s]] /\ \A s \in Section : more[s] # None => PageTyped(more[s])
  /\ steady = [s \in Section |-> steady[s]] /\ verdict = [m \in Mail |-> verdict[m]]

PageCovers(p, C) == PageTyped(p) /\ Covers(p.rows, p.next, C) /\ OwnRows(p.rows, C)

ReadingCovers ==
  reading # None =>
    /\ view.phase = "loading"
    /\ reading = [boundary |-> reading.boundary, got |-> reading.got, saw |-> reading.saw]
    /\ reading.got \in Seq(Pages) /\ Len(reading.got) <= 5
    /\ \A s \in Section : s < Len(reading.got) =>
         /\ steady[s] \subseteq InPlace(s, reading.boundary)
         /\ PageCovers(reading.got[s + 1], steady[s])

SectionCovers(s) ==
  /\ Covers(view.rows[s], view.next[s], steady[s]) /\ OwnRows(view.rows[s], steady[s])
  /\ more[s] # None =>
       /\ CoversFrom(view.next[s], more[s].rows, more[s].next, steady[s])
       /\ OwnRows(more[s].rows, steady[s])

ScreenCovers ==
  /\ view.phase # "ready" => fresh = None /\ \A s \in Section : more[s] = None
  /\ view.phase = "ready" =>
       reading = None /\ \A s \in Section : steady[s] \subseteq InPlace(s, view.boundary)
  /\ fresh # None => /\ fresh.pages \in [Section -> Pages]
                     /\ \A s \in Section : PageCovers(fresh.pages[s], steady[s])
  /\ view.phase = "ready" /\ fresh = None =>
       \A s \in Section \ overlap : SectionCovers(s)

Undecided == \A m \in Mail : verdict[m] = "open"
JudgedTruly ==
  /\ Evaluates => fresh = None /\ overlap = {}
  /\ ~Evaluates \/ reading # None => Undecided
  /\ MissIsReal

HomeInv == HomeTyped /\ ReadingCovers /\ ScreenCovers /\ JudgedTruly

LEMMA FirstPage ==
  ASSUME HomeAssumption, Clock, NEW s, NEW b, NEW limit \in Nat \ {0}
  PROVE  /\ PageCovers(Page(s, b, None, limit), InPlace(s, b))
         /\ Page(s, b, None, limit) \in Pages
<1> DEFINE p == Page(s, b, None, limit)
           C == InPlace(s, b)
<1>1. C \subseteq InPlace(s, b) /\ None \in Ranking \cup {None}
  OBVIOUS
<1>2. PageTyped(p) /\ OwnRows(p.rows, C) /\ Covers(p.rows, p.next, C)
  BY <1>1, PageGives
<1> QED BY <1>2 DEF PageCovers, PageTyped

LEMMA HomeBegins == HomeAssumption /\ Init => HomeInv
<1> SUFFICES ASSUME HomeAssumption, Init PROVE HomeInv
  OBVIOUS
<1>1. begun \in [Mail -> Nat] /\ ingested = begun
  BY DEF Init
<1>2. /\ view = Closed /\ more = [s \in Section |-> None] /\ fresh = None /\ reading = None
      /\ steady = [s \in Section |-> {}] /\ verdict = [m \in Mail |-> "open"] /\ overlap = {}
  BY DEF Init
<1>3. Closed.phase = "closed" /\ Closed.rows = [s \in Section |-> <<>>]
      /\ Closed.next = [s \in Section |-> None]
  BY DEF Closed
<1>4. HomeTyped
  BY <1>1, <1>2, <1>3 DEF HomeTyped, Clock, Closed
<1>5. ReadingCovers /\ ScreenCovers
  BY <1>2, <1>3 DEF ReadingCovers, ScreenCovers
<1>6. JudgedTruly
  BY <1>2 DEF JudgedTruly, Undecided, MissIsReal
<1> QED BY <1>4, <1>5, <1>6 DEF HomeInv

LEMMA PlaceKept ==
  ASSUME UNCHANGED db
  PROVE  \A s, b : InPlace(s, b)' = InPlace(s, b)
BY DEF InPlace, Leaders, Candidates, Stored, Visible, Tier, Signals, db

(* What covers some candidates covers fewer.                               *)
LEMMA FewerCovered ==
  ASSUME NEW rows, NEW next, NEW last, NEW C, NEW D \in SUBSET C
  PROVE  /\ Covers(rows, next, C) => Covers(rows, next, D)
         /\ OwnRows(rows, C) => OwnRows(rows, D)
         /\ CoversFrom(last, rows, next, C) => CoversFrom(last, rows, next, D)
         /\ \A p : PageCovers(p, C) => PageCovers(p, D)
BY DEF Covers, OwnRows, CoversFrom, PageCovers

(* The database changes, and what stays in its place is still covered.     *)
LEMMA ChangesKeep ==
  ASSUME HomeInv, Clock', begun' \in [Mail -> Nat],
         UNCHANGED <<reading, view, more, fresh, overlap, verdict>>, KeepsPlace
  PROVE  HomeInv'
<1>1. /\ steady' = [s \in Section |-> steady'[s]]
      /\ \A s \in Section : steady'[s] \in SUBSET steady[s] /\ steady'[s] \subseteq InPlace(s, Bound)'
  BY DEF KeepsPlace
<1>2. HomeTyped'
  BY <1>1 DEF HomeInv, HomeTyped
<1>3. ReadingCovers'
  <2> SUFFICES ASSUME reading # None PROVE ReadingCovers'
    BY DEF ReadingCovers
  <2>1. Bound' = reading'.boundary
    BY DEF Bound
  <2>2. \A s \in Section : steady'[s] \subseteq InPlace(s, reading.boundary)'
    BY <1>1, <2>1
  <2>3. ASSUME NEW s \in Section, s < Len(reading.got) PROVE PageCovers(reading.got[s + 1], steady'[s])
    BY <1>1, <2>3, FewerCovered DEF HomeInv, ReadingCovers
  <2> QED BY <2>2, <2>3 DEF HomeInv, ReadingCovers
<1>4. ScreenCovers'
  <2>1. view.phase = "ready" => \A s \in Section : steady'[s] \subseteq InPlace(s, view.boundary)'
    <3> SUFFICES ASSUME view.phase = "ready"
                 PROVE  \A s \in Section : steady'[s] \subseteq InPlace(s, view.boundary)'
      OBVIOUS
    <3>1. reading = None
      BY DEF HomeInv, ScreenCovers
    <3>2. Bound' = view'.boundary
      BY <3>1 DEF Bound
    <3> QED BY <1>1, <3>2
  <2>2. fresh # None => \A s \in Section : PageCovers(fresh.pages[s], steady'[s])
    BY <1>1, FewerCovered DEF HomeInv, ScreenCovers
  <2>3. ASSUME NEW s \in Section, SectionCovers(s) PROVE SectionCovers(s)'
    BY <1>1, <2>3, FewerCovered DEF SectionCovers
  <2> QED BY <2>1, <2>2, <2>3 DEF HomeInv, ScreenCovers
<1>5. JudgedTruly'
  <2>1. \A s \in 0 .. 2 : s \in Section
    BY DEF Section
  <2>2. MissIsReal'
    BY <1>1, <2>1 DEF HomeInv, JudgedTruly, MissIsReal
  <2> QED BY <2>2 DEF HomeInv, JudgedTruly, Undecided
<1> QED BY <1>2, <1>3, <1>4, <1>5 DEF HomeInv

LEMMA MailHubKeeps == ASSUME HomeAssumption, HomeInv, MailHub PROVE HomeInv'
<1>1. PICK m \in Mail : \/ BeginImport(m) \/ CommitImport(m) \/ Classify(m) \/ File(m)
                        \/ PlanReply(m) \/ DismissElsewhere(m)
  BY DEF MailHub
<1>2. Clock /\ begun \in [Mail -> Nat]
  BY DEF HomeInv, HomeTyped
<1>3. Changes
  BY <1>1 DEF BeginImport, CommitImport, Classify, File, PlanReply, DismissElsewhere
<1>4. Clock' /\ begun' \in [Mail -> Nat]
  <2>1. CASE BeginImport(m)
    <3>1. {n \in Mail : begun[n] > 0} \in SUBSET Mail /\ IsFiniteSet(Mail)
      BY DEF HomeAssumption
    <3>2. Cardinality({n \in Mail : begun[n] > 0}) \in Nat
      BY <3>1, FS_Subset, FS_CardinalityType
    <3> QED BY <1>2, <2>1, <3>2 DEF BeginImport, Clock
  <2>2. CASE CommitImport(m)
    BY <1>2, <2>2 DEF CommitImport, Clock
  <2>3. CASE Classify(m) \/ File(m) \/ PlanReply(m) \/ DismissElsewhere(m)
    BY <1>2, <2>3 DEF Classify, File, PlanReply, DismissElsewhere, Clock
  <2> QED BY <1>1, <2>1, <2>2, <2>3
<1> QED BY <1>3, <1>4, ChangesKeep DEF Changes

-----------------------------------------------------------------------------
(* The full read.                                                          *)

LEMMA OpenHomeKeeps == ASSUME HomeInv, OpenHome PROVE HomeInv'
<1>1. /\ view.phase = "closed" /\ UNCHANGED <<db, more, fresh, steady, overlap>>
      /\ reading' = [boundary |-> visit, got |-> <<>>, saw |-> {}]
      /\ view' = [view EXCEPT !.phase = "loading"]
      /\ verdict' = [m \in Mail |-> "open"]
  BY DEF OpenHome
<1>2. fresh = None /\ \A s \in Section : more[s] = None
  BY <1>1 DEF HomeInv, ScreenCovers
<1>3. view'.phase = "loading" /\ UNCHANGED <<view.rows, view.next>>
  BY <1>1 DEF HomeInv, HomeTyped
<1>4. HomeTyped'
  BY <1>1, <1>3 DEF HomeInv, HomeTyped, Clock, db
<1>5. ReadingCovers'
  BY <1>1, <1>3 DEF ReadingCovers, Section
<1>6. ScreenCovers'
  BY <1>1, <1>2, <1>3 DEF ScreenCovers
<1>7. JudgedTruly'
  <2>1. Undecided' /\ MissIsReal'
    BY <1>1 DEF Undecided, MissIsReal
  <2> QED BY <1>1, <2>1 DEF HomeInv, JudgedTruly
<1> QED BY <1>4, <1>5, <1>6, <1>7 DEF HomeInv

LEMMA ReadRankedSectionKeeps ==
  ASSUME HomeAssumption, HomeInv, ReadRankedSection PROVE HomeInv'
<1> DEFINE n == Len(reading.got)
           b == reading.boundary
           p == Page(n, b, None, SectionPage)
           c == {k.mail : k \in InPlace(n, b)}
<1>1. /\ reading # None /\ n < 5
      /\ reading' = [reading EXCEPT !.got = Append(@, p), !.saw = @ \cup c]
      /\ steady' = [steady EXCEPT ![n] = InPlace(n, b)]
      /\ UNCHANGED <<db, view, more, fresh, verdict, overlap>>
  BY DEF ReadRankedSection
<1>2. /\ view.phase = "loading" /\ reading.got \in Seq(Pages) /\ n <= 5
      /\ reading = [boundary |-> reading.boundary, got |-> reading.got, saw |-> reading.saw]
      /\ \A s \in Section : s < n => /\ steady[s] \subseteq InPlace(s, b)
                                     /\ PageCovers(reading.got[s + 1], steady[s])
  BY <1>1 DEF HomeInv, ReadingCovers
<1>3. n \in Section /\ n \in Nat
  <2>1. n \in Nat
    BY <1>2
  <2>2. n < 5
    BY <1>1
  <2> HIDE DEF n
  <2> QED BY <2>1, <2>2 DEF Section
<1>4. Clock
  BY DEF HomeInv, HomeTyped
<1>5. PageCovers(p, InPlace(n, b)) /\ p \in Pages
  <2>1. SectionPage \in Nat \ {0}
    BY DEF HomeAssumption
  <2> QED BY <1>4, <2>1, FirstPage
<1> HIDE DEF p, c
<1>6. /\ reading' = [boundary |-> reading'.boundary, got |-> reading'.got, saw |-> reading'.saw]
      /\ reading'.boundary = b /\ reading'.got = Append(reading.got, p)
  BY <1>1, <1>2
<1>7. /\ reading'.got \in Seq(Pages) /\ Len(reading'.got) = n + 1
      /\ \A i \in 1 .. n : reading'.got[i] = reading.got[i]
      /\ reading'.got[n + 1] = p
  BY <1>2, <1>3, <1>5, <1>6
<1>8. /\ steady' = [s \in Section |-> steady'[s]] /\ steady'[n] = InPlace(n, b)
      /\ \A s \in Section : s # n => steady'[s] = steady[s]
  <2>1. steady = [s \in Section |-> steady[s]]
    BY DEF HomeInv, HomeTyped
  <2> DEFINE Q == InPlace(n, b)
  <2> HIDE DEF Q
  <2>2. steady' = [steady EXCEPT ![n] = Q]
    BY <1>1 DEF Q
  <2>3. steady' = [s \in Section |-> IF s = n THEN Q ELSE steady[s]]
    BY <1>3, <2>1, <2>2
  <2>4. /\ steady' = [s \in Section |-> steady'[s]] /\ steady'[n] = Q
        /\ \A s \in Section : s # n => steady'[s] = steady[s]
    BY <1>3, <2>3
  <2> QED BY <2>4 DEF Q
<1>9. HomeTyped'
  BY <1>1, <1>8 DEF HomeInv, HomeTyped, Clock, db
<1>10. \A s : InPlace(s, reading.boundary)' = InPlace(s, b)
  BY <1>1, <1>6, PlaceKept
<1>11. ASSUME NEW s \in Section, s < n + 1
       PROVE  /\ steady'[s] \subseteq InPlace(s, reading.boundary)'
              /\ PageCovers(reading'.got[s + 1], steady'[s])
  <2>1. CASE s = n
    BY <1>5, <1>7, <1>8, <1>10, <2>1
  <2>2. CASE s # n
    <3>1. s < n /\ s + 1 \in 1 .. n
      BY <1>3, <1>11, <2>2 DEF Section
    <3> QED BY <1>2, <1>7, <1>8, <1>10, <2>2, <3>1
  <2> QED BY <2>1, <2>2
<1>12. ReadingCovers'
  <2>1. n + 1 <= 5 /\ view'.phase = "loading"
    BY <1>1, <1>2, <1>3
  <2> QED BY <1>6, <1>7, <1>11, <2>1 DEF ReadingCovers
<1>13. ScreenCovers'
  BY <1>1, <1>2 DEF HomeInv, ScreenCovers
<1>14. JudgedTruly'
  <2>1. Undecided
    BY <1>1 DEF HomeInv, JudgedTruly
  <2> QED BY <1>1, <2>1 DEF HomeInv, JudgedTruly, Undecided, MissIsReal
<1> QED BY <1>9, <1>12, <1>13, <1>14 DEF HomeInv

(* A screen that is closed holds nothing that could be read.               *)
LEMMA ClosedKeeps ==
  ASSUME HomeInv, Closes, reading' = None, UNCHANGED <<db, verdict, steady>>
  PROVE  HomeInv'
<1>1. view' = Closed /\ more' = [s \in Section |-> None] /\ fresh' = None /\ UNCHANGED overlap
  BY DEF Closes
<1>2. Closed.phase = "closed" /\ Closed.rows = [s \in Section |-> <<>>]
      /\ Closed.next = [s \in Section |-> None]
  BY DEF Closed
<1>3. HomeTyped'
  BY <1>1, <1>2 DEF HomeInv, HomeTyped, Clock, db, Closed
<1>5. ReadingCovers' /\ ScreenCovers'
  BY <1>1, <1>2 DEF ReadingCovers, ScreenCovers
<1>6. JudgedTruly'
  <2>1. MissIsReal'
    BY DEF HomeInv, JudgedTruly, MissIsReal
  <2> QED BY <1>1, <2>1 DEF HomeInv, JudgedTruly, Undecided
<1> QED BY <1>3, <1>5, <1>6 DEF HomeInv

LEMMA LeavingKeeps == ASSUME HomeInv, ReadFails \/ CloseHome PROVE HomeInv'
<1>1. CASE ReadFails
  BY <1>1, ClosedKeeps DEF ReadFails
<1>2. CASE CloseHome
  <2>1. reading = None
    BY <1>2 DEF CloseHome, HomeInv, ScreenCovers
  <2> QED BY <1>2, <2>1, ClosedKeeps DEF CloseHome
<1> QED BY <1>1, <1>2

LEMMA AdvanceKeeps ==
  ASSUME HomeAssumption, HomeInv, AdvanceVisitBoundary PROVE HomeInv'
<1>1. /\ reading # None /\ Len(reading.got) = 5 /\ reading' = None
      /\ UNCHANGED <<db, verdict, steady>>
  BY DEF AdvanceVisitBoundary
<1>2. CASE Closes
  BY <1>1, <1>2, ClosedKeeps
<1>3. CASE /\ view' = [phase |-> "ready", boundary |-> reading.boundary,
                       rows |-> [s \in Section |-> reading.got[s + 1].rows],
                       next |-> [s \in Section |-> reading.got[s + 1].next],
                       loading |-> {}]
           /\ overlap' = {} /\ UNCHANGED <<more, fresh>>
  <2>1. view.phase = "loading" /\ reading.got \in Seq(Pages)
    BY <1>1 DEF HomeInv, ReadingCovers
  <2>2. fresh = None /\ \A s \in Section : more[s] = None
    BY <2>1 DEF HomeInv, ScreenCovers
  <2>3. \A s \in Section : /\ steady[s] \subseteq InPlace(s, reading.boundary)
                           /\ PageCovers(reading.got[s + 1], steady[s])
                           /\ reading.got[s + 1] \in Pages
    <3>1. \A s \in Section : s < 5 /\ s + 1 \in 1 .. 5
      BY DEF Section
    <3> QED BY <1>1, <2>1, <3>1 DEF HomeInv, ReadingCovers
  <2>4. /\ view' = [phase |-> view'.phase, boundary |-> view'.boundary, rows |-> view'.rows,
                    next |-> view'.next, loading |-> view'.loading]
        /\ view'.phase = "ready" /\ view'.boundary = reading.boundary
        /\ view'.rows = [s \in Section |-> reading.got[s + 1].rows]
        /\ view'.next = [s \in Section |-> reading.got[s + 1].next]
    BY <1>3
  <2>5. HomeTyped'
    <3>1. view'.rows \in [Section -> Seq(HomeRows)]
      BY <2>3, <2>4 DEF Pages
    <3>2. view'.next \in [Section -> Ranking \cup {None}]
      BY <2>3, <2>4 DEF Pages
    <3> QED BY <1>1, <1>3, <2>4, <3>1, <3>2 DEF HomeInv, HomeTyped, Clock, db
  <2>6. ReadingCovers'
    BY <1>1 DEF ReadingCovers
  <2>7. \A s : InPlace(s, view.boundary)' = InPlace(s, reading.boundary)
    BY <1>1, <2>4, PlaceKept
  <2>8. ASSUME NEW s \in Section PROVE SectionCovers(s)'
    BY <1>1, <1>3, <2>2, <2>3, <2>4 DEF SectionCovers, PageCovers
  <2>9. ScreenCovers'
    BY <1>1, <1>3, <2>2, <2>3, <2>4, <2>7, <2>8 DEF ScreenCovers
  <2>10. JudgedTruly'
    <3>1. MissIsReal'
      BY <1>1 DEF HomeInv, JudgedTruly, MissIsReal
    <3> QED BY <1>1, <1>3, <2>2, <3>1 DEF HomeInv, JudgedTruly, Undecided
  <2> QED BY <2>5, <2>6, <2>9, <2>10 DEF HomeInv
<1> QED BY <1>2, <1>3 DEF AdvanceVisitBoundary

-----------------------------------------------------------------------------
(* Paging and refreshing.                                                  *)

(* A ready screen reads nothing on the server, and its database rests.     *)
LEMMA ScreenStays ==
  ASSUME HomeInv, UNCHANGED <<db, reading, verdict, steady>>,
         view.phase = "ready", view'.phase = "ready", UNCHANGED view.boundary
  PROVE  /\ ReadingCovers' /\ reading = None
         /\ \A s \in Section : steady'[s] \subseteq InPlace(s, view.boundary)'
         /\ Clock' /\ begun' \in [Mail -> Nat]
         /\ steady' = [s \in Section |-> steady'[s]] /\ verdict' = [m \in Mail |-> verdict'[m]]
         /\ UNCHANGED Undecided /\ MissIsReal'
<1>1. reading = None /\ \A s \in Section : steady[s] \subseteq InPlace(s, view.boundary)
  BY DEF HomeInv, ScreenCovers
<1>2. \A s : InPlace(s, view.boundary)' = InPlace(s, view.boundary)
  BY PlaceKept
<1>3. MissIsReal' /\ UNCHANGED Undecided
  BY DEF HomeInv, JudgedTruly, MissIsReal, Undecided
<1>4. Clock' /\ begun' \in [Mail -> Nat]
  BY DEF HomeInv, HomeTyped, Clock, db
<1>5. steady' = [s \in Section |-> steady'[s]] /\ verdict' = [m \in Mail |-> verdict'[m]]
  BY DEF HomeInv, HomeTyped
<1>6. ReadingCovers'
  BY <1>1 DEF ReadingCovers
<1> QED BY <1>1, <1>2, <1>3, <1>4, <1>5, <1>6

LEMMA MoreAskedKeeps ==
  ASSUME HomeAssumption, HomeInv, NEW s \in Section, LoadMore(s) PROVE HomeInv'
<1> DEFINE p == Page(s, view.boundary, view.next[s], SectionPage)
<1>1. /\ view.phase = "ready" /\ view.next[s] # None /\ more[s] = None
      /\ more' = [more EXCEPT ![s] = p]
      /\ view' = [view EXCEPT !.loading = @ \cup {s}]
      /\ UNCHANGED <<db, reading, fresh, verdict, steady, overlap>>
  BY DEF LoadMore
<1>2. /\ view' = [phase |-> view'.phase, boundary |-> view'.boundary, rows |-> view'.rows,
                  next |-> view'.next, loading |-> view'.loading]
      /\ UNCHANGED <<view.phase, view.boundary, view.rows, view.next>>
  BY <1>1 DEF HomeInv, HomeTyped
<1>3. /\ ReadingCovers' /\ reading = None
      /\ \A k \in Section : steady'[k] \subseteq InPlace(k, view.boundary)'
      /\ Clock' /\ begun' \in [Mail -> Nat]
      /\ steady' = [k \in Section |-> steady'[k]] /\ verdict' = [m \in Mail |-> verdict'[m]]
      /\ UNCHANGED Undecided /\ MissIsReal'
  BY <1>1, <1>2, ScreenStays
<1>4. /\ PageTyped(p) /\ CoversFrom(view.next[s], p.rows, p.next, steady[s])
      /\ OwnRows(p.rows, steady[s])
  <2>1. Clock /\ view.next[s] \in Ranking \cup {None} /\ SectionPage \in Nat \ {0}
    BY DEF HomeInv, HomeTyped, HomeAssumption
  <2>2. steady[s] \subseteq InPlace(s, view.boundary)
    BY <1>1 DEF HomeInv, ScreenCovers
  <2> QED BY <1>1, <2>1, <2>2, PageGives
<1> HIDE DEF p
<1>5. /\ more' = [k \in Section |-> more'[k]] /\ more'[s] = p
      /\ \A k \in Section : k # s => more'[k] = more[k]
  BY <1>1 DEF HomeInv, HomeTyped
<1>6. HomeTyped'
  BY <1>2, <1>3, <1>4, <1>5 DEF HomeInv, HomeTyped
<1>7. ASSUME NEW k \in Section, SectionCovers(k) PROVE SectionCovers(k)'
  BY <1>1, <1>2, <1>4, <1>5, <1>7 DEF SectionCovers
<1>8. ScreenCovers'
  BY <1>1, <1>2, <1>3, <1>7 DEF HomeInv, ScreenCovers
<1>9. JudgedTruly'
  BY <1>1, <1>3 DEF HomeInv, JudgedTruly
<1> QED BY <1>3, <1>6, <1>8, <1>9 DEF HomeInv

LEMMA MoreFailsKeeps ==
  ASSUME HomeInv, NEW s \in Section, MoreFails(s) PROVE HomeInv'
<1>1. /\ more[s] # None /\ more' = [more EXCEPT ![s] = None]
      /\ view' = [view EXCEPT !.loading = @ \ {s}]
      /\ UNCHANGED <<db, reading, fresh, verdict, steady, overlap>>
  BY DEF MoreFails
<1>2. /\ view' = [phase |-> view'.phase, boundary |-> view'.boundary, rows |-> view'.rows,
                  next |-> view'.next, loading |-> view'.loading]
      /\ UNCHANGED <<view.phase, view.boundary, view.rows, view.next>>
  BY <1>1 DEF HomeInv, HomeTyped
<1>3. view.phase = "ready"
  BY <1>1 DEF HomeInv, ScreenCovers
<1>4. /\ ReadingCovers' /\ reading = None
      /\ \A k \in Section : steady'[k] \subseteq InPlace(k, view.boundary)'
      /\ Clock' /\ begun' \in [Mail -> Nat]
      /\ steady' = [k \in Section |-> steady'[k]] /\ verdict' = [m \in Mail |-> verdict'[m]]
      /\ UNCHANGED Undecided /\ MissIsReal'
  BY <1>1, <1>2, <1>3, ScreenStays
<1>5. /\ more' = [k \in Section |-> more'[k]] /\ more'[s] = None
      /\ \A k \in Section : k # s => more'[k] = more[k]
  BY <1>1 DEF HomeInv, HomeTyped
<1>6. HomeTyped'
  BY <1>2, <1>4, <1>5 DEF HomeInv, HomeTyped
<1>7. ASSUME NEW k \in Section, SectionCovers(k) PROVE SectionCovers(k)'
  BY <1>1, <1>2, <1>5, <1>7 DEF SectionCovers
<1>8. ScreenCovers'
  BY <1>1, <1>2, <1>3, <1>4, <1>7 DEF HomeInv, ScreenCovers
<1>9. JudgedTruly'
  BY <1>1, <1>4 DEF HomeInv, JudgedTruly
<1> QED BY <1>4, <1>6, <1>8, <1>9 DEF HomeInv

LEMMA MoreArrivesKeeps ==
  ASSUME HomeAssumption, HomeInv, NEW s \in Section, MoreArrives(s) PROVE HomeInv'
<1> DEFINE page == more[s]
           merged == MergeItems(view.rows[s], page.rows)
<1>1. /\ page # None /\ more' = [more EXCEPT ![s] = None]
      /\ view' = [view EXCEPT !.rows[s] = merged, !.next[s] = page.next, !.loading = @ \ {s}]
      /\ UNCHANGED <<db, reading, fresh, verdict, steady, overlap>>
  BY DEF MoreArrives
<1>2. /\ PageTyped(page) /\ view.rows \in [Section -> Seq(HomeRows)]
      /\ view.next \in [Section -> Ranking \cup {None}]
  BY <1>1 DEF HomeInv, HomeTyped
<1>3. /\ merged \in Seq(HomeRows) /\ Entries(merged) = Entries(view.rows[s]) \cup Entries(page.rows)
      /\ \A C : OwnRows(view.rows[s], C) /\ OwnRows(page.rows, C) => OwnRows(merged, C)
  <2>1. view.rows[s] \in Seq(HomeRows)
    BY <1>2
  <2> QED BY <1>2, <2>1, MergeHolds
<1>4. page.next \in Ranking \cup {None}
  BY <1>2 DEF PageTyped, Pages
<1> HIDE DEF merged
<1>5. /\ view' = [phase |-> view'.phase, boundary |-> view'.boundary, rows |-> view'.rows,
                  next |-> view'.next, loading |-> view'.loading]
      /\ UNCHANGED <<view.phase, view.boundary>>
      /\ view'.rows = [view.rows EXCEPT ![s] = merged]
      /\ view'.next = [view.next EXCEPT ![s] = page.next]
  BY <1>1 DEF HomeInv, HomeTyped
<1>6. /\ view'.rows \in [Section -> Seq(HomeRows)] /\ view'.next \in [Section -> Ranking \cup {None}]
      /\ view'.rows[s] = merged /\ view'.next[s] = page.next
      /\ \A k \in Section : k # s => view'.rows[k] = view.rows[k] /\ view'.next[k] = view.next[k]
  BY <1>2, <1>3, <1>4, <1>5
<1>7. view.phase = "ready"
  BY <1>1 DEF HomeInv, ScreenCovers
<1>8. /\ ReadingCovers' /\ reading = None
      /\ \A k \in Section : steady'[k] \subseteq InPlace(k, view.boundary)'
      /\ Clock' /\ begun' \in [Mail -> Nat]
      /\ steady' = [k \in Section |-> steady'[k]] /\ verdict' = [m \in Mail |-> verdict'[m]]
      /\ UNCHANGED Undecided /\ MissIsReal'
  BY <1>1, <1>5, <1>7, ScreenStays
<1>9. /\ more' = [k \in Section |-> more'[k]] /\ more'[s] = None
      /\ \A k \in Section : k # s => more'[k] = more[k]
  BY <1>1 DEF HomeInv, HomeTyped
<1>10. HomeTyped'
  BY <1>5, <1>6, <1>7, <1>8, <1>9 DEF HomeInv, HomeTyped
<1>11. ASSUME NEW k \in Section, SectionCovers(k) PROVE SectionCovers(k)'
  <2>1. CASE k # s
    BY <1>1, <1>6, <1>9, <1>11, <2>1 DEF SectionCovers
  <2>2. CASE k = s
    <3>1. /\ Covers(view.rows[s], view.next[s], steady[s]) /\ OwnRows(view.rows[s], steady[s])
          /\ CoversFrom(view.next[s], page.rows, page.next, steady[s])
          /\ OwnRows(page.rows, steady[s])
      BY <1>1, <1>11, <2>2 DEF SectionCovers
    <3>2. ASSUME NEW c \in steady[s] PROVE Goes(merged, page.next, c)
      <4>1. CASE c.entry \in Entries(view.rows[s])
        BY <1>3, <4>1 DEF Goes
      <4>2. CASE RankedBefore(view.next[s], c)
        BY <1>3, <3>1, <4>2 DEF CoversFrom, Goes
      <4> QED BY <3>1, <4>1, <4>2 DEF Covers, Goes
    <3>3. OwnRows(merged, steady[s])
      BY <1>3, <3>1
    <3> QED BY <1>1, <1>6, <1>9, <2>2, <3>2, <3>3 DEF SectionCovers, Covers
  <2> QED BY <2>1, <2>2
<1>12. ScreenCovers'
  BY <1>1, <1>5, <1>7, <1>8, <1>11 DEF HomeInv, ScreenCovers
<1>13. JudgedTruly'
  BY <1>1, <1>8 DEF HomeInv, JudgedTruly
<1> QED BY <1>8, <1>10, <1>12, <1>13 DEF HomeInv

LEMMA RefreshSized ==
  ASSUME HomeAssumption, NEW count \in Nat PROVE RefreshSize(count) \in Nat \ {0}
<1> DEFINE first == IF count < SectionPage THEN SectionPage
                    ELSE IF count > MaxPage THEN MaxPage ELSE count
           rounds == IF count <= first THEN 0 ELSE (count - first + MaxPage - 1) \div MaxPage
<1>1. SectionPage \in Nat \ {0} /\ MaxPage \in Nat \ {0}
  BY DEF HomeAssumption
<1>2. first \in Nat \ {0}
  BY <1>1
<1>3. RefreshSize(count) = first + rounds * MaxPage
  BY DEF RefreshSize
<1> HIDE DEF first
<1>4. rounds \in Nat
  <2>1. CASE count <= first
    BY <2>1
  <2>2. CASE ~(count <= first)
    <3>1. count - first + MaxPage - 1 \in Nat
      BY <1>1, <1>2, <2>2
    <3>2. \A a \in Nat, b \in Nat \ {0} : a \div b \in Nat
      OBVIOUS
    <3> QED BY <1>1, <2>2, <3>1, <3>2
  <2> QED BY <2>1, <2>2
<1> HIDE DEF rounds
<1>5. \A a, b \in Nat : a * b \in Nat
  OBVIOUS
<1>6. rounds * MaxPage \in Nat
  BY <1>1, <1>4, <1>5
<1> DEFINE product == rounds * MaxPage
<1> HIDE DEF product
<1>7. product \in Nat /\ RefreshSize(count) = first + product
  BY <1>3, <1>6 DEF product
<1> QED BY <1>2, <1>7

LEMMA RefreshKeeps == ASSUME HomeAssumption, HomeInv, Refresh PROVE HomeInv'
<1> DEFINE page(s) == Page(s, view.boundary, None, RefreshSize(Len(view.rows[s])))
<1>1. /\ view.phase = "ready" /\ ~Evaluates
      /\ fresh' = [pages |-> [s \in Section |-> page(s)]]
      /\ steady' = [s \in Section |-> InPlace(s, view.boundary)]
      /\ UNCHANGED <<db, reading, view, more, verdict, overlap>>
  BY DEF Refresh
<1>2. \A s \in Section : PageCovers(page(s), InPlace(s, view.boundary)) /\ page(s) \in Pages
  <2> SUFFICES ASSUME NEW s \in Section
               PROVE  PageCovers(page(s), InPlace(s, view.boundary)) /\ page(s) \in Pages
    OBVIOUS
  <2>1. Clock /\ Len(view.rows[s]) \in Nat
    BY DEF HomeInv, HomeTyped
  <2>2. RefreshSize(Len(view.rows[s])) \in Nat \ {0}
    BY <2>1, RefreshSized
  <2> QED BY <2>1, <2>2, FirstPage
<1> HIDE DEF page
<1>3. fresh' # None /\ fresh'.pages = [s \in Section |-> page(s)]
  <2>1. DOMAIN fresh' = {"pages"} /\ DOMAIN None = {"none"}
    BY <1>1 DEF None
  <2>2. fresh' # None
    BY <2>1
  <2> QED BY <1>1, <2>2
<1>4. reading = None
  BY <1>1 DEF HomeInv, ScreenCovers
<1>5. HomeTyped'
  BY <1>1 DEF HomeInv, HomeTyped, Clock, db
<1>6. ReadingCovers'
  BY <1>1, <1>4 DEF ReadingCovers
<1>7. \A s : InPlace(s, view.boundary)' = InPlace(s, view.boundary)
  BY <1>1, PlaceKept
<1>8. /\ fresh'.pages \in [Section -> Pages]
      /\ \A s \in Section : PageCovers(fresh'.pages[s], steady'[s])
  BY <1>1, <1>2, <1>3
<1>9. \A s \in Section : steady'[s] \subseteq InPlace(s, view.boundary)'
  BY <1>1, <1>7
<1>10. ScreenCovers'
  BY <1>1, <1>3, <1>4, <1>8, <1>9 DEF ScreenCovers
<1>11. JudgedTruly'
  <2>1. Undecided
    BY <1>1 DEF HomeInv, JudgedTruly
  <2>2. Undecided' /\ MissIsReal'
    BY <1>1, <2>1 DEF Undecided, MissIsReal
  <2> QED BY <1>1, <2>2 DEF JudgedTruly
<1> QED BY <1>5, <1>6, <1>10, <1>11 DEF HomeInv

LEMMA RefreshArrivesKeeps == ASSUME HomeInv, RefreshArrives PROVE HomeInv'
<1>1. /\ fresh # None /\ fresh' = None
      /\ view' = [view EXCEPT !.rows = [s \in Section |-> fresh.pages[s].rows],
                              !.next = [s \in Section |-> fresh.pages[s].next],
                              !.loading = {}]
      /\ overlap' = {s \in Section : more[s] # None}
      /\ UNCHANGED <<db, reading, more, verdict, steady>>
  BY DEF RefreshArrives
<1>2. /\ view' = [phase |-> view'.phase, boundary |-> view'.boundary, rows |-> view'.rows,
                  next |-> view'.next, loading |-> view'.loading]
      /\ UNCHANGED <<view.phase, view.boundary>>
      /\ view'.rows = [s \in Section |-> fresh.pages[s].rows]
      /\ view'.next = [s \in Section |-> fresh.pages[s].next]
  BY <1>1 DEF HomeInv, HomeTyped
<1>3. view.phase = "ready"
  BY <1>1 DEF HomeInv, ScreenCovers
<1>4. /\ fresh.pages \in [Section -> Pages]
      /\ \A s \in Section : PageCovers(fresh.pages[s], steady[s])
  BY <1>1 DEF HomeInv, ScreenCovers
<1>5. /\ ReadingCovers' /\ reading = None
      /\ \A k \in Section : steady'[k] \subseteq InPlace(k, view.boundary)'
      /\ Clock' /\ begun' \in [Mail -> Nat]
      /\ steady' = [k \in Section |-> steady'[k]] /\ verdict' = [m \in Mail |-> verdict'[m]]
      /\ UNCHANGED Undecided /\ MissIsReal'
  BY <1>1, <1>2, <1>3, ScreenStays
<1>6. HomeTyped'
  <2>1. view'.rows \in [Section -> Seq(HomeRows)] /\ view'.next \in [Section -> Ranking \cup {None}]
    BY <1>2, <1>4 DEF Pages
  <2> QED BY <1>1, <1>2, <1>3, <1>5, <2>1 DEF HomeInv, HomeTyped
<1>7. ASSUME NEW s \in Section \ overlap' PROVE SectionCovers(s)'
  <2>1. more[s] = None
    BY <1>1
  <2> QED BY <1>1, <1>2, <1>4, <2>1 DEF SectionCovers, PageCovers
<1>8. ScreenCovers'
  BY <1>1, <1>2, <1>3, <1>5, <1>7 DEF ScreenCovers
<1>9. JudgedTruly'
  BY <1>1, <1>5 DEF HomeInv, JudgedTruly
<1> QED BY <1>5, <1>6, <1>8, <1>9 DEF HomeInv

LEMMA RefreshFailsKeeps == ASSUME HomeInv, RefreshFails PROVE HomeInv'
<1>1. /\ fresh # None /\ fresh' = None /\ steady' = [s \in Section |-> {}]
      /\ UNCHANGED <<db, reading, view, more, verdict, overlap>>
  BY DEF RefreshFails
<1>2. view.phase = "ready" /\ reading = None
  BY <1>1 DEF HomeInv, ScreenCovers
<1>3. HomeTyped'
  BY <1>1 DEF HomeInv, HomeTyped, Clock, db
<1>4. ReadingCovers'
  BY <1>1, <1>2 DEF ReadingCovers
<1>5. ScreenCovers'
  <2>1. \A s \in Section : SectionCovers(s)'
    BY <1>1 DEF SectionCovers, Covers, OwnRows, CoversFrom
  <2> QED BY <1>1, <1>2, <2>1 DEF ScreenCovers
<1>6. JudgedTruly'
  <2>1. MissIsReal'
    BY <1>1 DEF MissIsReal, Section
  <2> QED BY <1>1, <2>1 DEF HomeInv, JudgedTruly, Undecided
<1> QED BY <1>3, <1>4, <1>5, <1>6 DEF HomeInv

-----------------------------------------------------------------------------
(* A dismissal, and the evaluation.                                        *)

LEMMA PlacesShown ==
  \A k \in {1, 3} : \A b : \A c \in InPlace(k, b) : c.mail \in Visible
BY CandidatesShown DEF InPlace, Leaders

LEMMA PlacesShownNext ==
  \A k \in {1, 3} : \A b : \A c \in InPlace(k, b)' : c.mail \in Visible'
<1>1. (\A k \in {1, 3} : \A b : \A c \in InPlace(k, b) : c.mail \in Visible)'
  BY PlacesShown, PTL
<1> QED BY <1>1

(* Dismissed mail is in its place no longer, so its entry may go.          *)
LEMMA DismissKeeps ==
  ASSUME HomeAssumption, HomeInv, NEW s \in {1, 3}, NEW i \in DOMAIN view.rows[s], Dismiss(s, i)
  PROVE  HomeInv'
<1> DEFINE rows == view.rows[s]
           row == rows[i]
           rest == SubSeq(rows, 1, i - 1) \o SubSeq(rows, i + 1, Len(rows))
<1>1. /\ view.phase = "ready" /\ ~Evaluates
      /\ hidden' = hidden \cup {row.mail}
      /\ view' = [view EXCEPT !.rows[s] = rest]
      /\ UNCHANGED <<begun, ingested, answered, filed, planned, visit, reading, more, fresh,
                     verdict, overlap, start, surfaced>>
      /\ KeepsPlace
  BY DEF Dismiss
<1>2. s \in Section /\ rows \in Seq(HomeRows)
  BY DEF HomeInv, HomeTyped, Section
<1>3. /\ rest \in Seq(HomeRows)
      /\ \A j \in DOMAIN rows : j # i => \E k \in DOMAIN rest : rest[k] = rows[j]
      /\ \A k \in DOMAIN rest : \E j \in DOMAIN rows : rest[k] = rows[j]
  BY <1>2, RemovalHolds
<1> HIDE DEF rest
<1>4. /\ view' = [phase |-> view'.phase, boundary |-> view'.boundary, rows |-> view'.rows,
                  next |-> view'.next, loading |-> view'.loading]
      /\ UNCHANGED <<view.phase, view.boundary, view.next>>
      /\ view'.rows = [view.rows EXCEPT ![s] = rest]
  BY <1>1 DEF HomeInv, HomeTyped
<1>5. /\ view'.rows \in [Section -> Seq(HomeRows)] /\ view'.rows[s] = rest
      /\ \A k \in Section : k # s => view'.rows[k] = view.rows[k]
  BY <1>2, <1>3, <1>4 DEF HomeInv, HomeTyped
<1>6. reading = None
  BY <1>1 DEF HomeInv, ScreenCovers
<1>7. /\ steady' = [k \in Section |-> steady'[k]]
      /\ \A k \in Section : steady'[k] \in SUBSET steady[k]
                            /\ steady'[k] \subseteq InPlace(k, view.boundary)'
  <2>1. Bound' = view'.boundary
    BY <1>1, <1>6 DEF Bound
  <2> QED BY <1>1, <2>1 DEF KeepsPlace
<1>8. Clock /\ Clock' /\ begun' \in [Mail -> Nat]
  BY <1>1 DEF HomeInv, HomeTyped, Clock
<1>9. HomeTyped'
  BY <1>1, <1>4, <1>5, <1>7, <1>8 DEF HomeInv, HomeTyped
<1>10. ReadingCovers'
  BY <1>1, <1>6 DEF ReadingCovers
<1>11. ASSUME NEW c \in steady'[s] PROVE c.mail # row.mail
  <2>1. c \in InPlace(s, view.boundary)'
    BY <1>2, <1>7
  <2>2. c.mail \in Visible'
    BY <2>1, PlacesShownNext
  <2>3. row.mail \notin Visible'
    BY <1>1 DEF Visible
  <2> QED BY <2>2, <2>3
<1>12. ASSUME NEW k \in Section, SectionCovers(k) PROVE SectionCovers(k)'
  <2>1. /\ Covers(view.rows[k], view.next[k], steady'[k]) /\ OwnRows(view.rows[k], steady'[k])
        /\ more[k] # None => /\ CoversFrom(view.next[k], more[k].rows, more[k].next, steady'[k])
                             /\ OwnRows(more[k].rows, steady'[k])
    BY <1>7, <1>12, FewerCovered DEF SectionCovers
  <2>2. CASE k # s
    BY <1>1, <1>4, <1>5, <2>1, <2>2 DEF SectionCovers
  <2>3. CASE k = s
    <3>1. ASSUME NEW c \in steady'[s] PROVE Goes(rest, view.next[s], c)
      <4>1. CASE c.entry \in Entries(rows)
        <5>1. PICK j \in DOMAIN rows : rows[j].entry = c.entry
          BY <4>1 DEF Entries
        <5>2. rows[j].mail = c.mail
          BY <2>1, <2>3, <3>1, <5>1 DEF OwnRows, RowOf
        <5>3. j # i
          BY <1>11, <3>1, <5>2
        <5>4. c.entry \in Entries(rest)
          BY <1>3, <5>1, <5>3 DEF Entries
        <5> QED BY <5>4 DEF Goes
      <4>2. CASE ~(c.entry \in Entries(rows))
        BY <2>1, <2>3, <3>1, <4>2 DEF Covers, Goes
      <4> QED BY <4>1, <4>2
    <3>2. OwnRows(rest, steady'[s])
      BY <1>3, <2>1, <2>3 DEF OwnRows
    <3> QED BY <1>1, <1>4, <1>5, <2>1, <2>3, <3>1, <3>2 DEF SectionCovers, Covers
  <2> QED BY <2>2, <2>3
<1>13. fresh # None => \A k \in Section : PageCovers(fresh.pages[k], steady'[k])
  BY <1>7, FewerCovered DEF HomeInv, ScreenCovers
<1>14. ScreenCovers'
  BY <1>1, <1>4, <1>6, <1>7, <1>12, <1>13 DEF HomeInv, ScreenCovers
<1>15. JudgedTruly'
  <2>1. Undecided
    BY <1>1 DEF HomeInv, JudgedTruly
  <2>2. Undecided' /\ MissIsReal'
    BY <1>1, <2>1 DEF Undecided, MissIsReal
  <2> QED BY <1>1, <2>2 DEF JudgedTruly
<1> QED BY <1>9, <1>10, <1>14, <1>15 DEF HomeInv

(* The walk reached the end of every attention section.                    *)
LEMMA JudgeKeeps == ASSUME HomeInv, Judge PROVE HomeInv'
<1>1. /\ Evaluates /\ view.phase = "ready" /\ \A s \in 0 .. 2 : view.next[s] = None
      /\ verdict' = [m \in Mail |->
           IF m \notin Stored THEN "absent"
           ELSE IF m \notin answered THEN "unanswered"
           ELSE IF m \in Walked THEN "present"
           ELSE IF m \in hidden THEN "dismissed" ELSE "no_attention_signal"]
      /\ UNCHANGED <<db, reading, view, more, fresh, steady, overlap>>
  BY DEF Judge
<1>2. reading = None /\ fresh = None /\ overlap = {}
  BY <1>1 DEF HomeInv, ScreenCovers, JudgedTruly
<1>3. HomeTyped'
  BY <1>1 DEF HomeInv, HomeTyped, Clock, db
<1>4. ReadingCovers'
  BY <1>1, <1>2 DEF ReadingCovers
<1>5. \A s : InPlace(s, view.boundary)' = InPlace(s, view.boundary)
  BY <1>1, PlaceKept
<1>6. ScreenCovers'
  BY <1>1, <1>2, <1>5 DEF HomeInv, ScreenCovers, SectionCovers
<1>7. ASSUME NEW s \in 0 .. 2, NEW c \in steady[s] PROVE c.mail \in Walked
  <2>1. s \in Section
    BY DEF Section
  <2>2. SectionCovers(s) /\ view.next[s] = None
    BY <1>1, <1>2, <2>1 DEF HomeInv, ScreenCovers
  <2>3. c.entry \in Entries(view.rows[s])
    BY <1>7, <2>2 DEF SectionCovers, Covers, Goes
  <2>4. PICK i \in DOMAIN view.rows[s] : view.rows[s][i].entry = c.entry
    BY <2>3 DEF Entries
  <2>5. c.mail \in view.rows[s][i].members
    BY <1>7, <2>2, <2>4 DEF SectionCovers, OwnRows, RowOf
  <2> QED BY <2>4, <2>5 DEF Walked
<1>8. MissIsReal'
  BY <1>1, <1>7 DEF MissIsReal
<1>9. JudgedTruly'
  BY <1>1, <1>2, <1>8 DEF HomeInv, JudgedTruly
<1> QED BY <1>3, <1>4, <1>6, <1>9 DEF HomeInv

LEMMA HomeStep == HomeAssumption /\ HomeInv /\ [Next]_vars => HomeInv'
<1> SUFFICES ASSUME HomeAssumption, HomeInv, [Next]_vars PROVE HomeInv'
  OBVIOUS
<1>1. CASE UNCHANGED vars
  <2>1. \A s, b : InPlace(s, b)' = InPlace(s, b)
    BY <1>1, PlaceKept DEF vars
  <2>2. HomeTyped'
    BY <1>1 DEF HomeInv, HomeTyped, Clock, vars, db
  <2>3. ReadingCovers'
    BY <1>1, <2>1 DEF HomeInv, ReadingCovers, vars
  <2>4. ScreenCovers'
    BY <1>1, <2>1 DEF HomeInv, ScreenCovers, SectionCovers, vars
  <2>5. JudgedTruly'
    BY <1>1 DEF HomeInv, JudgedTruly, Undecided, MissIsReal, vars
  <2> QED BY <2>2, <2>3, <2>4, <2>5 DEF HomeInv
<1>2. CASE Screen
  <2>1. CASE OpenHome \/ Refresh \/ RefreshArrives \/ RefreshFails \/ CloseHome \/ Judge
    BY <2>1, OpenHomeKeeps, RefreshKeeps, RefreshArrivesKeeps, RefreshFailsKeeps, LeavingKeeps,
       JudgeKeeps
  <2>2. CASE \E s \in Section : LoadMore(s) \/ MoreArrives(s) \/ MoreFails(s)
    BY <2>2, MoreAskedKeeps, MoreArrivesKeeps, MoreFailsKeeps
  <2>3. CASE \E s \in {1, 3} : \E i \in DOMAIN view.rows[s] : Dismiss(s, i)
    BY <2>3, DismissKeeps
  <2> QED BY <1>2, <2>1, <2>2, <2>3 DEF Screen
<1>3. CASE ReadHome
  BY <1>3, ReadRankedSectionKeeps, LeavingKeeps, AdvanceKeeps DEF ReadHome
<1>4. CASE MailHub
  BY <1>4, MailHubKeeps
<1> QED BY <1>1, <1>2, <1>3, <1>4 DEF Next

(* The ranking is a total order that compareAttention agrees with.         *)
LEMMA RankingFollowed == ASSUME HomeAssumption, Clock PROVE AttentionFollowsRanking
<1> DEFINE I == InPlace(1, Bound)
           R == {HomeRow(c) : c \in I}
           page == Ranked(1, Bound)
<1>1. Orderly(R)
  BY RowsOfPlace
<1>2. page = InOrder(R)
  BY DEF Ranked
<1>3. \A c \in I : HomeRow(c).at = c /\ HomeRow(c).mail = c.mail /\ HomeRow(c).entry = c.entry
  BY DEF HomeRow
<1>4. \A c, d \in I : c.entry = d.entry => c = d
  BY OneLeader
<1>5. \A c \in I : c.mail \in Mail /\ c = Stands(c.mail, 1) /\ c \in Ranking
  BY InPlaceKnown
<1> HIDE DEF I
<1>6. \A r \in R : \E c \in I : r = HomeRow(c)
  OBVIOUS
<1> HIDE DEF R
<1>7. /\ page \in Seq(R)
      /\ \A i, j \in DOMAIN page : i < j => RankedBefore(page[i].at, page[j].at)
  BY <1>1, <1>2, InOrderHolds
<1>8. \A i \in DOMAIN page : page[i] \in R
  BY <1>7
<1> HIDE DEF page
<1>9. ASSUME NEW i \in DOMAIN page, NEW j \in DOMAIN page, i < j
      PROVE  page[i].entry # page[j].entry /\ ComparesBefore(page[i].mail, page[j].mail)
  <2>1. PICK c \in I : page[i] = HomeRow(c)
    BY <1>6, <1>8
  <2>2. PICK d \in I : page[j] = HomeRow(d)
    BY <1>6, <1>8
  <2>3. RankedBefore(c, d)
    BY <1>3, <1>7, <1>9, <2>1, <2>2
  <2>4. c # d
    BY <1>5, <2>3, NotBeforeItself
  <2>5. c.entry # d.entry
    BY <1>4, <2>4
  <2>6. ASSUME NEW m \in Mail
        PROVE  /\ Stands(m, 1).tier = AttentionTier(Signals(m))
               /\ Stands(m, 1).sort = 0 - Traits[m].sent /\ Stands(m, 1).id = Traits[m].id
    BY DEF Stands, Candidate, Tier, Protected, AttentionTier
  <2>7. ASSUME NEW m \in Mail, NEW n \in Mail, RankedBefore(Stands(m, 1), Stands(n, 1))
        PROVE  ComparesBefore(m, n)
    <3>1. Traits[m].sent \in Int /\ Traits[n].sent \in Int
      BY DEF HomeAssumption
    <3> QED BY <2>6, <2>7, <3>1 DEF RankedBefore, ComparesBefore
  <2>8. ComparesBefore(c.mail, d.mail)
    <3>1. c = Stands(c.mail, 1) /\ d = Stands(d.mail, 1) /\ c.mail \in Mail /\ d.mail \in Mail
      BY <1>5
    <3>2. RankedBefore(Stands(c.mail, 1), Stands(d.mail, 1))
      BY <2>3, <3>1
    <3> QED BY <2>7, <3>1, <3>2
  <2> QED BY <1>3, <2>1, <2>2, <2>5, <2>8
<1> QED BY <1>9 DEF AttentionFollowsRanking, page

(* What Home shows is whole, in order and reported truly, for any mail,    *)
(* any page sizes, any number of visits, refreshes and changes in between: *)
(* paging to the end shows every conversation that stayed in its place, in *)
(* the order of compareAttention, and the evaluation reports missing only  *)
(* what no section held (encodeCursor, mergeItems, evaluateHome).          *)
THEOREM HomeStaysWhole == HomeAssumption => (Spec => []HomeShowsAll)
<1> SUFFICES ASSUME HomeAssumption PROVE Spec => []HomeShowsAll
  OBVIOUS
<1>1. Init => HomeInv
  BY HomeBegins
<1>2. HomeInv /\ [Next]_vars => HomeInv'
  BY HomeStep
<1>3. HomeInv => HomeShowsAll
  <2> SUFFICES ASSUME HomeInv PROVE HomeShowsAll
    OBVIOUS
  <2>1. WalkMissesNothing
    BY DEF HomeInv, ScreenCovers, SectionCovers, Covers, Goes, WalkMissesNothing
  <2>2. AttentionFollowsRanking
    BY RankingFollowed DEF HomeInv, HomeTyped
  <2>3. MissIsReal
    BY DEF HomeInv, JudgedTruly
  <2> QED BY <2>1, <2>2, <2>3 DEF HomeShowsAll
<1>4. QED BY <1>1, <1>2, <1>3, PTL DEF Spec
=============================================================================
