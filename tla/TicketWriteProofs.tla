------------------------- MODULE TicketWriteProofs -------------------------
(***************************************************************************)
(* The ticket writes for every number of tickets, requests and sections,   *)
(* every job and every number of failures and crashes.                     *)
(***************************************************************************)
EXTENDS TicketWrite, SequenceTheorems, FiniteSetTheorems, TLAPS

Text == Revision \cup {Legacy}

-----------------------------------------------------------------------------
\* What the roadmap has of a ticket: no line; at most one; only lines with
\* this revision, in its section.
None(road, i) ==
  \A s \in Sections : \A k \in 1 .. Len(road[s]) : road[s][k].id # i
Single(road, i) ==
  \A s, t \in Sections : \A k \in 1 .. Len(road[s]), l \in 1 .. Len(road[t]) :
    road[s][k].id = i /\ road[t][l].id = i => s = t /\ k = l
Says(road, i, rev) ==
  \A s \in Sections : \A k \in 1 .. Len(road[s]) :
    road[s][k].id = i => road[s][k].rev = rev /\ SectionOf[rev] \in {0, s}

\* What a change of the roadmap leaves alone of i.
Kept(road, new, i) ==
  /\ None(road, i) => None(new, i)
  /\ Single(road, i) => Single(new, i)
  /\ \A rev \in Text : Says(road, i, rev) => Says(new, i, rev)

\* Every line of new was in road, or is i's new one.
Brings(road, new, i, rev) ==
  \A s \in Sections : \A k \in 1 .. Len(new[s]) :
    \/ \E l \in 1 .. Len(road[s]) : road[s][l] = new[s][k]
    \/ new[s][k] = [id |-> i, rev |-> rev]

LEMMA PlacesAre ==
  ASSUME NEW road \in Roads, NEW i
  PROVE  Places(road, i) = {p \in Sections \X Nat : p[2] \in 1 .. Len(road[p[1]])
                                                    /\ road[p[1]][p[2]].id = i}
<1>1. \A s \in Sections : DOMAIN road[s] = 1 .. Len(road[s]) /\ Len(road[s]) \in Nat
  BY LenProperties DEF Roads
<1>2. \A p : p \in UNION {{s} \X DOMAIN road[s] : s \in Sections}
               <=> p \in Sections \X Nat /\ p[2] \in 1 .. Len(road[p[1]])
  BY <1>1
<1> QED
  BY <1>2 DEF Places

LEMMA FirstIsAPlace ==
  ASSUME NEW road \in Roads, NEW i, Places(road, i) # {}
  PROVE  First(road, i) \in Places(road, i)
<1> DEFINE P == Places(road, i)
           S == {p[1] : p \in P}
<1>1. P \subseteq Sections \X Nat /\ Sections \subseteq Nat
  BY PlacesAre, TicketAssumption
<1>2. \A T \in SUBSET Nat : T # {} => \E m \in T : \A n \in T : m <= n
  <2> SUFFICES ASSUME NEW T \in SUBSET Nat, T # {} PROVE \E m \in T : \A n \in T : m <= n
    OBVIOUS
  <2>1. \E m \in T : \A n \in T : <<n, m>> \notin OpToRel(<, Nat)
    BY WFMin, NatLessThanWellFounded
  <2>2. \A m, n \in Nat : n < m => <<n, m>> \in OpToRel(<, Nat)
    BY DEF OpToRel
  <2>3. \A m, n \in Nat : n < m \/ m <= n
    OBVIOUS
  <2> QED
    BY <2>1, <2>2, <2>3
<1>3. PICK s \in S : \A t \in S : s <= t
  <2>1. S \in SUBSET Nat /\ S # {}
    BY <1>1
  <2> QED
    BY ONLY <1>2, <2>1
<1> DEFINE K == {k \in Nat : <<s, k>> \in P}
<1>4. PICK k \in K : \A l \in K : k <= l
  <2>1. K \in SUBSET Nat /\ K # {}
    BY <1>1, <1>3
  <2> QED
    BY ONLY <1>2, <2>1
<1>5. <<s, k>> \in P /\ \A q \in P : s < q[1] \/ (s = q[1] /\ k <= q[2])
  <2> SUFFICES ASSUME NEW q \in P PROVE s < q[1] \/ (s = q[1] /\ k <= q[2])
    BY <1>4
  <2>1. q = <<q[1], q[2]>> /\ q[1] \in Nat /\ q[2] \in Nat /\ s <= q[1] /\ s \in Nat
    BY <1>1, <1>3
  <2>2. CASE s = q[1]
    BY <1>4, <2>1, <2>2
  <2> QED
    BY <2>1, <2>2
<1>6. \E p \in P : \A q \in P : p[1] < q[1] \/ (p[1] = q[1] /\ p[2] <= q[2])
  <2> WITNESS <<s, k>> \in P
  <2> QED
    BY <1>5
<1> QED
  BY <1>6 DEF First

LEMMA Removed ==
  ASSUME NEW S, NEW s \in Seq(S), NEW k \in 1 .. Len(s)
  PROVE  /\ RemoveAt(s, k) \in Seq(S)
         /\ Len(RemoveAt(s, k)) = Len(s) - 1
         /\ \A n \in 1 .. Len(s) - 1 :
              RemoveAt(s, k)[n] = IF n < k THEN s[n] ELSE s[n + 1]
<1> DEFINE a == SubSeq(s, 1, k - 1)
           b == SubSeq(s, k + 1, Len(s))
<1>1. Len(s) \in Nat /\ \A n \in 1 .. Len(s) : s[n] \in S
  BY LenProperties, ElementOfSeq
<1>2. a \in Seq(S) /\ Len(a) = k - 1 /\ \A n \in 1 .. k - 1 : a[n] = s[n]
  <2>1. \A n \in 1 .. k - 1 : s[n] \in S
    BY <1>1
  <2>2. /\ a \in Seq(S)
        /\ Len(a) = IF 1 <= k - 1 THEN k - 1 - 1 + 1 ELSE 0
        /\ \A n \in 1 .. k - 1 - 1 + 1 : a[n] = s[1 + n - 1]
    BY <1>1, <2>1, SubSeqProperties
  <2> QED
    BY <1>1, <2>2
<1>3. b \in Seq(S) /\ Len(b) = Len(s) - k /\ \A n \in 1 .. Len(s) - k : b[n] = s[n + k]
  <2>1. \A n \in k + 1 .. Len(s) : s[n] \in S
    BY <1>1
  <2>2. /\ b \in Seq(S)
        /\ Len(b) = IF k + 1 <= Len(s) THEN Len(s) - (k + 1) + 1 ELSE 0
        /\ \A n \in 1 .. Len(s) - (k + 1) + 1 : b[n] = s[(k + 1) + n - 1]
    BY <1>1, <2>1, SubSeqProperties
  <2> QED
    BY <1>1, <2>2
<1>4. /\ a \o b \in Seq(S) /\ Len(a \o b) = Len(a) + Len(b)
      /\ \A n \in 1 .. Len(a) + Len(b) :
           (a \o b)[n] = IF n <= Len(a) THEN a[n] ELSE b[n - Len(a)]
  BY <1>2, <1>3, ConcatProperties
<1>5. RemoveAt(s, k) = a \o b
  BY DEF RemoveAt
<1> HIDE DEF a, b
<1>6. ASSUME NEW n \in 1 .. Len(s) - 1
      PROVE  (a \o b)[n] = IF n < k THEN s[n] ELSE s[n + 1]
  <2>1. n \in 1 .. Len(a) + Len(b)
    BY <1>1, <1>2, <1>3
  <2>2. CASE n < k
    BY <1>1, <1>2, <1>4, <2>1, <2>2
  <2>3. CASE ~(n < k)
    <3>1. n - Len(a) \in 1 .. Len(s) - k /\ (n - Len(a)) + k = n + 1 /\ ~(n <= Len(a))
      BY <1>1, <1>2, <2>3
    <3> QED
      BY <1>3, <1>4, <2>1, <2>3, <3>1
  <2> QED
    BY <2>2, <2>3
<1>7. Len(a) + Len(b) = Len(s) - 1
  BY <1>1, <1>2, <1>3
<1> QED
  BY <1>4, <1>5, <1>6, <1>7

\* A line at the end of the section its revision names.
LEMMA AppendsLine ==
  ASSUME NEW road \in Roads, NEW i \in Id, NEW rev \in Text, NEW s \in Sections,
         SectionOf[rev] = s
  PROVE  LET new == [road EXCEPT ![s] = Append(@, [id |-> i, rev |-> rev])]
         IN /\ new \in Roads /\ Brings(road, new, i, rev)
            /\ \A j \in Id \ {i} : Kept(road, new, j)
            /\ None(road, i) => Single(new, i) /\ Says(new, i, rev)
<1> DEFINE line == [id |-> i, rev |-> rev]
           new == [road EXCEPT ![s] = Append(@, line)]
<1>1. line \in Line /\ line.id = i /\ line.rev = rev
  BY DEF Line, Text
<1>2. \A t \in Sections : road[t] \in Seq(Line) /\ Len(road[t]) \in Nat
  BY LenProperties DEF Roads
<1>3. /\ Append(road[s], line) \in Seq(Line)
      /\ Len(Append(road[s], line)) = Len(road[s]) + 1
      /\ \A k \in 1 .. Len(road[s]) : Append(road[s], line)[k] = road[s][k]
      /\ Append(road[s], line)[Len(road[s]) + 1] = line
  BY <1>1, <1>2, AppendProperties
<1>4. new \in Roads /\ new[s] = Append(road[s], line)
      /\ \A t \in Sections \ {s} : new[t] = road[t]
  BY <1>3 DEF Roads
<1> HIDE DEF new, line
<1>5. \A t \in Sections : \A k \in 1 .. Len(new[t]) :
        \/ k \in 1 .. Len(road[t]) /\ new[t][k] = road[t][k]
        \/ t = s /\ k = Len(road[s]) + 1 /\ new[t][k] = line
  BY <1>2, <1>3, <1>4
<1>6. Brings(road, new, i, rev)
  BY <1>5 DEF Brings, line
<1>7. ASSUME NEW j \in Id \ {i} PROVE Kept(road, new, j)
  <2>1. \A t \in Sections : \A k \in 1 .. Len(new[t]) :
          new[t][k].id = j => k \in 1 .. Len(road[t]) /\ new[t][k] = road[t][k]
    BY <1>1, <1>5
  <2>2. None(road, j) => None(new, j)
    BY ONLY <2>1 DEF None
  <2>3. Single(road, j) => Single(new, j)
    BY ONLY <2>1 DEF Single
  <2>4. \A r \in Text : Says(road, j, r) => Says(new, j, r)
    BY ONLY <2>1 DEF Says
  <2> QED
    BY <2>2, <2>3, <2>4 DEF Kept
<1>8. ASSUME None(road, i) PROVE Single(new, i) /\ Says(new, i, rev)
  <2>1. \A t \in Sections : \A k \in 1 .. Len(new[t]) :
          new[t][k].id = i => t = s /\ k = Len(road[s]) + 1 /\ new[t][k] = line
    BY <1>5, <1>8 DEF None
  <2>2. Single(new, i)
    BY ONLY <2>1 DEF Single
  <2> QED
    BY <1>1, <2>1, <2>2 DEF Says
<1> QED
  BY <1>4, <1>6, <1>7, <1>8 DEF new, line

\* A line of i written over, in a section its revision may be in.
LEMMA ReplacesLine ==
  ASSUME NEW road \in Roads, NEW i \in Id, NEW rev \in Text, NEW p \in Places(road, i),
         SectionOf[rev] \in {0, p[1]}
  PROVE  LET new == [road EXCEPT ![p[1]][p[2]] = [id |-> i, rev |-> rev]]
         IN /\ new \in Roads /\ Brings(road, new, i, rev)
            /\ \A j \in Id \ {i} : Kept(road, new, j)
            /\ Single(road, i) => Single(new, i) /\ Says(new, i, rev)
<1> DEFINE line == [id |-> i, rev |-> rev]
           new == [road EXCEPT ![p[1]][p[2]] = line]
           s == p[1]
           n == p[2]
<1>1. line \in Line /\ line.id = i /\ line.rev = rev
  BY DEF Line, Text
<1>2. s \in Sections /\ n \in 1 .. Len(road[s]) /\ road[s][n].id = i
  BY PlacesAre
<1>3. \A t \in Sections : road[t] \in Seq(Line)
  BY DEF Roads
<1>4. /\ [road[s] EXCEPT ![n] = line] \in Seq(Line)
      /\ Len([road[s] EXCEPT ![n] = line]) = Len(road[s])
      /\ \A k \in 1 .. Len(road[s]) :
           [road[s] EXCEPT ![n] = line][k] = IF k = n THEN line ELSE road[s][k]
  BY <1>1, <1>2, <1>3, ExceptSeq
<1>5. new \in Roads /\ new[s] = [road[s] EXCEPT ![n] = line]
      /\ \A t \in Sections \ {s} : new[t] = road[t]
  BY <1>2, <1>4 DEF Roads
<1> HIDE DEF new, line, s, n
<1>6. \A t \in Sections : Len(new[t]) = Len(road[t]) /\ \A k \in 1 .. Len(road[t]) :
        new[t][k] = IF t = s /\ k = n THEN line ELSE road[t][k]
  BY <1>4, <1>5
<1>7. Brings(road, new, i, rev)
  BY <1>6 DEF Brings, line
<1>8. \A j \in Id \ {i} : Kept(road, new, j)
  BY <1>1, <1>6 DEF Kept, None, Single, Says
<1>9. Single(road, i) => Single(new, i)
  <2>1. \A t \in Sections : \A k \in 1 .. Len(new[t]) :
          k \in 1 .. Len(road[t]) /\ (new[t][k].id = i => road[t][k].id = i)
    BY <1>1, <1>2, <1>6
  <2> QED
    BY ONLY <2>1 DEF Single
<1>10. Single(road, i) => Says(new, i, rev)
  <2> SUFFICES ASSUME Single(road, i), NEW t \in Sections, NEW k \in 1 .. Len(new[t]),
                      new[t][k].id = i
               PROVE  new[t][k].rev = rev /\ SectionOf[rev] \in {0, t}
    BY DEF Says
  <2>1. t = s /\ k = n
    BY <1>1, <1>2, <1>6 DEF Single
  <2> QED
    BY <1>1, <1>2, <1>6, <2>1 DEF s
<1> QED
  BY <1>5, <1>7, <1>8, <1>9, <1>10 DEF new, line

\* A line of i taken out: those behind it in its section move up.
LEMMA RemovesLine ==
  ASSUME NEW road \in Roads, NEW i \in Id, NEW p \in Places(road, i)
  PROVE  LET new == Without(road, p)
         IN /\ new \in Roads /\ \A rev : Brings(road, new, i, rev)
            /\ \A j \in Id \ {i} : Kept(road, new, j)
            /\ Single(road, i) => None(new, i)
            /\ Len(new[p[1]]) = Len(road[p[1]]) - 1
<1> DEFINE new == Without(road, p)
           s == p[1]
           n == p[2]
<1>1. s \in Sections /\ n \in 1 .. Len(road[s]) /\ road[s][n].id = i
  BY PlacesAre
<1>2. \A t \in Sections : road[t] \in Seq(Line) /\ Len(road[t]) \in Nat
  BY LenProperties DEF Roads
<1>3. /\ RemoveAt(road[s], n) \in Seq(Line)
      /\ Len(RemoveAt(road[s], n)) = Len(road[s]) - 1
      /\ \A k \in 1 .. Len(road[s]) - 1 :
           RemoveAt(road[s], n)[k] = IF k < n THEN road[s][k] ELSE road[s][k + 1]
  BY <1>1, <1>2, Removed
<1>4. new \in Roads /\ new[s] = RemoveAt(road[s], n)
      /\ \A t \in Sections \ {s} : new[t] = road[t]
  BY <1>1, <1>3 DEF Roads, Without
<1> DEFINE From(t, k) == IF t = s /\ ~(k < n) THEN k + 1 ELSE k
<1> HIDE DEF new, s, n
<1>5. \A t \in Sections : \A k \in 1 .. Len(new[t]) :
        /\ From(t, k) \in 1 .. Len(road[t])
        /\ new[t][k] = road[t][From(t, k)]
        /\ ~(t = s /\ From(t, k) = n)
  BY <1>1, <1>2, <1>3, <1>4
<1>6. \A t \in Sections : \A k, l \in 1 .. Len(new[t]) : From(t, k) = From(t, l) => k = l
  BY <1>1, <1>2, <1>3, <1>4
<1> HIDE DEF From
<1>7. \A rev : Brings(road, new, i, rev)
  BY <1>5 DEF Brings
<1>8. \A j \in Id \ {i} : Kept(road, new, j)
  <2> SUFFICES ASSUME NEW j \in Id \ {i} PROVE Kept(road, new, j)
    OBVIOUS
  <2>1. None(road, j) => None(new, j)
    BY <1>5 DEF None
  <2>2. ASSUME Single(road, j) PROVE Single(new, j)
    <3> SUFFICES ASSUME NEW t \in Sections, NEW u \in Sections,
                        NEW k \in 1 .. Len(new[t]), NEW l \in 1 .. Len(new[u]),
                        new[t][k].id = j, new[u][l].id = j
                 PROVE  t = u /\ k = l
      BY DEF Single
    <3>1. road[t][From(t, k)].id = j /\ road[u][From(u, l)].id = j
      BY <1>5
    <3>2. t = u /\ From(t, k) = From(u, l)
      BY <1>5, <2>2, <3>1 DEF Single
    <3> QED
      BY <1>6, <3>2
  <2>3. \A rev \in Text : Says(road, j, rev) => Says(new, j, rev)
    BY <1>5 DEF Says
  <2> QED
    BY <2>1, <2>2, <2>3 DEF Kept
<1>9. Single(road, i) => None(new, i)
  BY <1>1, <1>5 DEF Single, None
<1> QED
  BY <1>3, <1>4, <1>7, <1>8, <1>9 DEF new, s

LEMMA Creates ==
  ASSUME NEW road \in Roads, NEW i \in Id, NEW rev \in Revision
  PROVE  LET new == RoadmapCreate(road, i, rev)
         IN /\ new \in Roads /\ Brings(road, new, i, rev)
            /\ \A j \in Id \ {i} : Kept(road, new, j)
            /\ None(road, i) => Single(new, i) /\ Says(new, i, rev)
<1>1. CASE SectionOf[rev] = 0
  <2>1. RoadmapCreate(road, i, rev) = road
    BY <1>1 DEF RoadmapCreate
  <2>2. Brings(road, road, i, rev)
    BY DEF Brings
  <2>3. \A j \in Id : Kept(road, road, j)
    BY DEF Kept
  <2>4. None(road, i) => Single(road, i) /\ Says(road, i, rev)
    BY DEF None, Single, Says
  <2> QED
    BY <2>1, <2>2, <2>3, <2>4
<1>2. CASE SectionOf[rev] # 0
  <2>1. SectionOf[rev] \in Sections /\ rev \in Text
    BY <1>2, TicketAssumption DEF Text
  <2> DEFINE s == SectionOf[rev]
             new == RoadmapCreate(road, i, rev)
  <2>2. new = [road EXCEPT ![s] = Append(@, [id |-> i, rev |-> rev])]
    BY <1>2 DEF RoadmapCreate
  <2>3. s \in Sections /\ SectionOf[rev] = s
    BY <2>1
  <2> HIDE DEF s, new
  <2>4. /\ new \in Roads /\ Brings(road, new, i, rev)
        /\ \A j \in Id \ {i} : Kept(road, new, j)
        /\ None(road, i) => Single(new, i) /\ Says(new, i, rev)
    BY <2>1, <2>2, <2>3, AppendsLine
  <2> QED
    BY <2>4 DEF new
<1> QED
  BY <1>1, <1>2

LEMMA NoLine ==
  ASSUME NEW road \in Roads, NEW i, Places(road, i) = {}
  PROVE  None(road, i)
<1>1. \A s \in Sections : Len(road[s]) \in Nat
  BY LenProperties DEF Roads
<1>2. ASSUME NEW s \in Sections, NEW k \in 1 .. Len(road[s]), road[s][k].id = i
      PROVE  FALSE
  <2> DEFINE p == <<s, k>>
  <2>1. p \in Sections \X Nat /\ p[1] = s /\ p[2] = k
    BY <1>1
  <2> HIDE DEF p
  <2>2. p \in Places(road, i)
    BY ZenonT(60), <1>2, <2>1, PlacesAre
  <2> QED
    BY <2>2
<1> QED
  BY <1>2 DEF None

LEMMA NoneIsAll ==
  ASSUME NEW road, NEW i, None(road, i)
  PROVE  Single(road, i) /\ \A rev : Says(road, i, rev)
BY DEF None, Single, Says

LEMMA Edits ==
  ASSUME NEW road \in Roads, NEW i \in Id, NEW rev \in Revision
  PROVE  LET new == RoadmapEdit(road, i, rev)
         IN /\ new \in Roads /\ Brings(road, new, i, rev)
            /\ \A j \in Id \ {i} : Kept(road, new, j)
            /\ Single(road, i) => Single(new, i) /\ Says(new, i, rev)
<1> DEFINE p == First(road, i)
           new == RoadmapEdit(road, i, rev)
<1>1. CASE Places(road, i) = {}
  <2>1. new = road
    BY <1>1 DEF RoadmapEdit
  <2>2. Brings(road, road, i, rev) /\ \A j \in Id : Kept(road, road, j)
    BY DEF Brings, Kept
  <2> QED
    BY <1>1, <2>1, <2>2, NoLine, NoneIsAll
<1>2. CASE Places(road, i) # {} /\ SectionOf[rev] \in {0, p[1]}
  <2>1. p \in Places(road, i) /\ rev \in Text
    BY <1>2, FirstIsAPlace DEF Text
  <2>2. new = [road EXCEPT ![p[1]][p[2]] = [id |-> i, rev |-> rev]]
    BY <1>2 DEF RoadmapEdit
  <2> HIDE DEF p, new
  <2>3. /\ new \in Roads /\ Brings(road, new, i, rev)
        /\ \A j \in Id \ {i} : Kept(road, new, j)
        /\ Single(road, i) => Single(new, i) /\ Says(new, i, rev)
    BY <1>2, <2>1, <2>2, ReplacesLine
  <2> QED
    BY <2>3 DEF new
<1>3. CASE Places(road, i) # {} /\ SectionOf[rev] \notin {0, p[1]}
  <2> DEFINE mid == Without(road, p)
  <2>1. p \in Places(road, i)
    BY <1>3, FirstIsAPlace
  <2>2. new = RoadmapCreate(mid, i, rev)
    BY <1>3 DEF RoadmapEdit
  <2> HIDE DEF p
  <2>3. /\ mid \in Roads /\ Brings(road, mid, i, rev)
        /\ \A j \in Id \ {i} : Kept(road, mid, j)
        /\ Single(road, i) => None(mid, i)
    BY <2>1, RemovesLine
  <2> HIDE DEF mid, new
  <2>4. /\ new \in Roads /\ Brings(mid, new, i, rev)
        /\ \A j \in Id \ {i} : Kept(mid, new, j)
        /\ None(mid, i) => Single(new, i) /\ Says(new, i, rev)
    BY <2>2, <2>3, Creates
  <2>5. Brings(road, new, i, rev)
    BY <2>3, <2>4 DEF Brings
  <2>6. \A j \in Id \ {i} : Kept(road, new, j)
    BY <2>3, <2>4 DEF Kept
  <2> QED
    BY <2>3, <2>4, <2>5, <2>6 DEF new
<1> QED
  BY <1>1, <1>2, <1>3

LEMMA Deletes ==
  ASSUME NEW road \in Roads, NEW i \in Id
  PROVE  LET new == RoadmapDelete(road, i)
         IN /\ new \in Roads /\ \A rev : Brings(road, new, i, rev)
            /\ \A j \in Id \ {i} : Kept(road, new, j)
            /\ Single(road, i) => None(new, i)
<1>1. CASE Places(road, i) = {}
  <2>1. RoadmapDelete(road, i) = road
    BY <1>1 DEF RoadmapDelete
  <2>2. (\A rev : Brings(road, road, i, rev)) /\ \A j \in Id : Kept(road, road, j)
    BY DEF Brings, Kept
  <2> QED
    BY <1>1, <2>1, <2>2, NoLine
<1>2. CASE Places(road, i) # {}
  <2>1. First(road, i) \in Places(road, i)
    BY <1>2, FirstIsAPlace
  <2>2. RoadmapDelete(road, i) = Without(road, First(road, i))
    BY <1>2 DEF RoadmapDelete
  <2> QED
    BY <2>1, <2>2, RemovesLine
<1> QED
  BY <1>1, <1>2

\* What the manifest says of a ticket once the job has taken effect.
Entered(j) == IF j.op = "delete" THEN NoEntry ELSE j.rev

\* What a render plans for the roadmap: no other ticket's lines change, every
\* new line says what the manifest will, and the ticket's line is right if it
\* had no line, or one.
LEMMA RoadmapChanges ==
  ASSUME roadmap \in Roads, NEW j \in Jobs
  PROVE  LET new == RoadmapAfter(j)
         IN /\ new \in Roads /\ Brings(roadmap, new, j.id, Entered(j))
            /\ \A i \in Id \ {j.id} : Kept(roadmap, new, i)
            /\ j.op = "create" /\ None(roadmap, j.id) =>
                 Single(new, j.id) /\ Says(new, j.id, j.rev)
            /\ j.op = "edit" /\ Single(roadmap, j.id) =>
                 Single(new, j.id) /\ Says(new, j.id, j.rev)
            /\ j.op = "delete" /\ Single(roadmap, j.id) => None(new, j.id)
<1>1. j.op \in {"create", "edit", "delete"} /\ j.id \in Id /\ j.rev \in Revision
  BY TicketAssumption
<1>2. CASE j.op = "create"
  <2>1. RoadmapAfter(j) = RoadmapCreate(roadmap, j.id, j.rev) /\ Entered(j) = j.rev
    BY <1>2 DEF RoadmapAfter, Entered
  <2> QED
    BY <1>1, <1>2, <2>1, Creates
<1>3. CASE j.op = "edit"
  <2>1. RoadmapAfter(j) = RoadmapEdit(roadmap, j.id, j.rev) /\ Entered(j) = j.rev
    BY <1>3 DEF RoadmapAfter, Entered
  <2> QED
    BY <1>1, <1>3, <2>1, Edits
<1>4. CASE j.op = "delete"
  <2>1. RoadmapAfter(j) = RoadmapDelete(roadmap, j.id)
    BY <1>4 DEF RoadmapAfter
  <2> QED
    BY <1>1, <1>4, <2>1, Deletes
<1> QED
  BY <1>1, <1>2, <1>3, <1>4

-----------------------------------------------------------------------------
Critical == {"check", "gate", "render", "manifest", "content", "roadmap", "reread"}

\* The lock is held by the request in the critical section, and by no other.
LockInv == \A r \in Requests : holder = r <=> pc[r] \in Critical

\* A request is answered when it is done, and not before.
AnswerInv == \A r \in Requests : answer[r] = "none" <=> pc[r] # "done"

\* A plan is of the files as they are, until it is carried out, but for a roadmap change left out.
PlanInv(r) ==
  /\ pc[r] \in {"manifest", "content", "roadmap"} =>
       /\ ~job[r].dry
       /\ plan[r].roadmap = IF RoadmapAfter(job[r]) = roadmap \/ plan[r].blind THEN Unchanged
                            ELSE RoadmapAfter(job[r])
  /\ pc[r] = "manifest" =>
       /\ (job[r].op = "create") = (Entry(r) = NoEntry)
       /\ ~(job[r].op = "edit" /\ Entry(r) = Legacy)
       /\ plan[r].manifest = [manifest EXCEPT ![job[r].id] = Entered(job[r])]
       /\ plan[r].legacy <=> Entry(r) = Legacy
  /\ pc[r] \in {"content", "roadmap"} =>
       /\ Entry(r) = Entered(job[r])
       /\ plan[r].legacy => job[r].op = "delete"
  /\ pc[r] = "roadmap" => plan[r].roadmap # Unchanged

\* The content files of a ticket of which no delete was torn.
FilesInv(i) ==
  <<i, "delete">> \notin torn =>
    /\ ~Written(i) => /\ i \in md <=> manifest[i] = Legacy
                      /\ manifest[i] \in {Legacy, NoEntry} => json[i] = NoEntry
    /\ ~Written(i) /\ ~Cut(i) => manifest[i] = Legacy \/ json[i] = manifest[i]
    /\ \A r \in Requests : job[r].id = i =>
         /\ pc[r] = "content" => /\ i \in md <=> plan[r].legacy
                                 /\ plan[r].legacy => json[i] = NoEntry
         /\ pc[r] = "roadmap" => i \notin md /\ json[i] = manifest[i]

\* Its roadmap lines: a failure may leave one that is out of date, never two, unless it was
\* the delete's.
LinesInv(i) ==
  <<i, "delete">> \notin astray =>
    /\ Single(roadmap, i)
    /\ ~Written(i) /\ manifest[i] = NoEntry => None(roadmap, i)
    /\ ~Written(i) /\ ~Astray(i) => Says(roadmap, i, manifest[i])
    /\ \A r \in Halfway : job[r].id = i /\ job[r].op = "create" => None(roadmap, i)

IInv == /\ TypeOK /\ LockInv /\ AnswerInv
        /\ \A r \in Requests : PlanInv(r)
        /\ \A i \in Id : FilesInv(i) /\ LinesInv(i)

LEMMA JobTypes ==
  ASSUME TypeOK, NEW r \in Requests
  PROVE  /\ job[r] \in Jobs /\ job[r].id \in Id /\ job[r].rev \in Revision
         /\ job[r].op \in {"create", "edit", "delete"} /\ job[r].dry \in BOOLEAN
         /\ Entered(job[r]) \in Revision \cup {NoEntry}
         /\ Entered(job[r]) # Legacy
         /\ Entered(job[r]) = NoEntry <=> job[r].op = "delete"
         /\ Entry(r) \in Entries
BY TicketAssumption DEF TypeOK, Entered, Entry, Entries

LEMMA Alone ==
  ASSUME LockInv, NEW r \in Requests, pc[r] \in Critical
  PROVE  /\ holder = r
         /\ \A q \in Requests \ {r} : pc[q] \notin Critical
BY DEF LockInv

\* A plan as TypeOK has it.
Plans == {NoPlan} \cup [manifest : [Id -> Entries], roadmap : Roads \cup {Unchanged},
                        legacy : BOOLEAN, blind : BOOLEAN]

\* A plan that leaves its roadmap change out.
Blinded(p) == [p EXCEPT !.roadmap = Unchanged, !.blind = TRUE]

LEMMA PlannedType ==
  ASSUME TypeOK, NEW r \in Requests
  PROVE  Planned(job[r]) \in Plans /\ Blinded(Planned(job[r])) \in Plans
<1>1. RoadmapAfter(job[r]) \in Roads
  BY JobTypes, RoadmapChanges DEF TypeOK
<1>2. [manifest EXCEPT ![job[r].id] = IF job[r].op = "delete" THEN NoEntry ELSE job[r].rev]
        \in [Id -> Entries]
  BY JobTypes DEF TypeOK, Entries
<1> QED
  BY <1>1, <1>2 DEF Planned, Plans, Blinded

LEMMA FinishTypes ==
  ASSUME TypeOK, NEW r \in Requests, NEW a \in Answers, Finish(r, a)
  PROVE  /\ pc' \in [Requests -> Stages] /\ answer' \in [Requests -> Answers]
         /\ plan' \in [Requests -> Plans] /\ holder' \in Requests \cup {Nobody}
         /\ was' \subseteq RunState
BY DEF TypeOK, Finish, Goto, Plans, Stages

LEMMA TypeStep ==
  ASSUME IInv, [Next]_vars
  PROVE  TypeOK'
<1> USE DEF IInv, tears
<1>1. ASSUME NEW r \in Requests, NEW j \in Jobs, Arrive(r, j)
      PROVE  TypeOK'
  <2>1. queue' \in Seq(Requests)
    BY <1>1, AppendProperties DEF Arrive, TypeOK
  <2> QED
    BY <1>1, <2>1 DEF Arrive, Goto, TypeOK, disk, Stages
<1>2. ASSUME NEW r \in Requests, Acquire(r)
      PROVE  TypeOK'
  <2>1. queue' \in Seq(Requests)
    BY <1>2, HeadTailProperties DEF Acquire, TypeOK
  <2>2. was' \subseteq RunState
    BY <1>2, JobTypes DEF Acquire, At, TypeOK
  <2> QED
    BY <1>2, <2>1, <2>2 DEF Acquire, At, Goto, TypeOK, disk, Stages
<1>3. ASSUME NEW r \in Requests, Check(r)
      PROVE  TypeOK'
  BY <1>3, FinishTypes DEF Check, At, Goto, TypeOK, disk, Stages, Answers, Plans
<1>4. ASSUME NEW r \in Requests, Gate(r)
      PROVE  TypeOK'
  BY <1>4, FinishTypes DEF Gate, At, Goto, TypeOK, disk, Stages, Answers, Plans
<1>5. ASSUME NEW r \in Requests, Render(r)
      PROVE  TypeOK'
  <2>1. CASE \E a \in Answers : Finish(r, a)
    BY <1>5, <2>1, FinishTypes DEF Render, At, TypeOK, disk, Plans
  <2>2. CASE plan' = [plan EXCEPT ![r] = Planned(job[r])] /\ Goto(r, "manifest")
             /\ UNCHANGED <<answer, holder, was>>
    BY <1>5, <2>2, PlannedType DEF Render, At, Goto, TypeOK, disk, Stages, Plans
  <2> QED
    BY <1>5, <2>1, <2>2 DEF Render, Answers
<1>6. ASSUME NEW r \in Requests, WriteManifest(r)
      PROVE  TypeOK'
  <2>1. manifest' \in [Id -> Entries]
    BY ZenonT(60), <1>6, JobTypes DEF WriteManifest, At, PlanInv, TypeOK, Entries
  <2> QED
    BY <1>6, <2>1 DEF WriteManifest, At, Goto, TypeOK, Stages
<1>7. ASSUME NEW r \in Requests, WriteContent(r)
      PROVE  TypeOK'
  <2>1. json' \in [Id -> Revision \cup {NoEntry}] /\ md' \subseteq Id
    BY <1>7, JobTypes DEF WriteContent, TypeOK
  <2>2. /\ pc' \in [Requests -> Stages] /\ torn' \subseteq torn
        /\ astray' \subseteq astray \cup {<<job[r].id, job[r].op>>}
    BY <1>7 DEF WriteContent, Whole, Goto, TypeOK, Stages
  <2>3. /\ torn' \subseteq Id \X {"create", "edit", "delete"}
        /\ astray' \subseteq Id \X {"create", "edit", "delete"}
    <3>1. <<job[r].id, job[r].op>> \in Id \X {"create", "edit", "delete"}
      BY JobTypes
    <3>2. /\ torn \subseteq Id \X {"create", "edit", "delete"}
          /\ astray \subseteq Id \X {"create", "edit", "delete"}
      BY DEF TypeOK
    <3> HIDE DEF IInv
    <3> QED
      BY ONLY <2>2, <3>1, <3>2
  <2> QED
    BY <1>7, <2>1, <2>2, <2>3 DEF WriteContent, At, TypeOK
<1>8. ASSUME NEW r \in Requests, WriteRoadmap(r)
      PROVE  TypeOK'
  <2>1. roadmap' \in Roads
    <3>1. roadmap \in Roads /\ RoadmapAfter(job[r]) \in Roads
      BY JobTypes, RoadmapChanges DEF TypeOK
    <3> QED
      BY <1>8, <3>1 DEF WriteRoadmap, At, PlanInv
  <2> QED
    BY <1>8, <2>1, JobTypes DEF WriteRoadmap, Whole, At, Goto, TypeOK, Stages
<1>9. ASSUME NEW r \in Requests, Reread(r)
      PROVE  TypeOK'
  BY <1>9, FinishTypes DEF Reread, At, TypeOK, disk, Answers, Plans
<1>10. ASSUME NEW r \in Requests, Fail(r)
       PROVE  TypeOK'
  <2>1. /\ torn' \subseteq Id \X {"create", "edit", "delete"}
        /\ astray' \subseteq Id \X {"create", "edit", "delete"}
    BY <1>10, JobTypes DEF Fail, Tears, Halfway, TypeOK
  <2>2. faults' \in 0 .. MaxFaults
    BY <1>10, TicketAssumption DEF Fail, TypeOK
  <2>3. \E a \in Answers : Finish(r, a)
    BY <1>10 DEF Fail, Answers
  <2> QED
    BY <1>10, <2>1, <2>2, <2>3, FinishTypes DEF Fail, TypeOK, disk, Plans
<1>11. ASSUME NEW r \in Requests, Respond(r)
       PROVE  TypeOK'
  BY <1>11 DEF Respond, At, Goto, TypeOK, disk, Stages, Answers
<1>12. CASE Crash
  <2>1. /\ torn' \subseteq Id \X {"create", "edit", "delete"}
        /\ astray' \subseteq Id \X {"create", "edit", "delete"}
    BY <1>12, JobTypes DEF Crash, Tears, Halfway, TypeOK
  <2>2. faults' \in 0 .. MaxFaults
    BY <1>12, TicketAssumption DEF Crash, TypeOK
  <2>3. queue' \in Seq(Requests)
    BY <1>12, EmptySeq DEF Crash
  <2> QED
    BY <1>12, <2>1, <2>2, <2>3 DEF Crash, TypeOK, disk, Stages, Answers
<1>13. CASE FactoryMoves
  BY <1>13 DEF FactoryMoves, TypeOK, disk
<1>14. CASE UNCHANGED vars
  BY <1>14 DEF vars, TypeOK, disk
<1>15. ASSUME NEW r \in Requests, RenderBlind(r)
       PROVE  TypeOK'
  <2>1. plan' = [plan EXCEPT ![r] = Blinded(Planned(job[r]))] /\ faults' \in 0 .. MaxFaults
    BY <1>15, TicketAssumption DEF RenderBlind, Blinded, TypeOK
  <2> QED
    BY <1>15, <2>1, PlannedType DEF RenderBlind, Goto, TypeOK, disk, Stages, Plans
<1> QED
  BY <1>1, <1>2, <1>3, <1>4, <1>5, <1>6, <1>7, <1>8, <1>9, <1>10, <1>11, <1>12, <1>13, <1>14, <1>15
     DEF Next, Handle

LEMMA FinishDoes ==
  ASSUME TypeOK, LockInv, AnswerInv, NEW r \in Requests, pc[r] \in Critical,
         NEW a \in Answers \ {"none"}, Finish(r, a)
  PROVE  /\ LockInv' /\ AnswerInv' /\ pc'[r] = "done"
         /\ \A q \in Requests \ {r} : pc'[q] = pc[q] /\ plan'[q] = plan[q]
<1>1. /\ pc'[r] = "done" /\ answer'[r] = a /\ holder' = Nobody
      /\ \A q \in Requests \ {r} : pc'[q] = pc[q] /\ plan'[q] = plan[q] /\ answer'[q] = answer[q]
  BY DEF TypeOK, Finish, Goto
<1>2. LockInv'
  BY <1>1, Alone, TicketAssumption DEF LockInv, Critical
<1>3. AnswerInv'
  BY <1>1 DEF AnswerInv
<1> QED
  BY <1>1, <1>2, <1>3

LEMMA GotoDoes ==
  ASSUME TypeOK, LockInv, AnswerInv, NEW r \in Requests, pc[r] \in Critical,
         NEW stage \in Critical, Goto(r, stage), UNCHANGED <<answer, holder>>
  PROVE  /\ LockInv' /\ AnswerInv' /\ pc'[r] = stage
         /\ \A q \in Requests \ {r} : pc'[q] = pc[q]
BY DEF TypeOK, Goto, LockInv, AnswerInv, Critical

LEMMA LockStep ==
  ASSUME IInv, [Next]_vars
  PROVE  LockInv' /\ AnswerInv'
<1> USE DEF IInv
<1>1. ASSUME NEW r \in Requests, NEW j \in Jobs, Arrive(r, j)
      PROVE  LockInv' /\ AnswerInv'
  BY <1>1 DEF Arrive, Goto, TypeOK, LockInv, AnswerInv, Critical
<1>2. ASSUME NEW r \in Requests, Acquire(r)
      PROVE  LockInv' /\ AnswerInv'
  <2>1. /\ pc'[r] = "check" /\ \A q \in Requests \ {r} : pc'[q] = pc[q]
        /\ pc[r] = "waiting" /\ holder = Nobody /\ holder' = r /\ answer' = answer
    BY <1>2 DEF Acquire, At, Goto, TypeOK
  <2>2. \A q \in Requests : pc[q] \notin Critical
    BY <2>1, TicketAssumption DEF LockInv
  <2> QED
    BY <2>1, <2>2 DEF LockInv, AnswerInv, Critical
<1>3. ASSUME NEW r \in Requests, pc[r] \in Critical, NEW a \in Answers \ {"none"}, Finish(r, a)
      PROVE  LockInv' /\ AnswerInv'
  BY <1>3, FinishDoes
<1>4. ASSUME NEW r \in Requests, pc[r] \in Critical, NEW stage \in Critical, Goto(r, stage),
             UNCHANGED <<answer, holder>>
      PROVE  LockInv' /\ AnswerInv'
  BY <1>4, GotoDoes
<1>5. ASSUME NEW r \in Requests, Check(r)
      PROVE  LockInv' /\ AnswerInv'
  BY <1>3, <1>4, <1>5 DEF Check, At, Critical, Answers
<1>6. ASSUME NEW r \in Requests, Gate(r)
      PROVE  LockInv' /\ AnswerInv'
  BY <1>3, <1>4, <1>6 DEF Gate, At, Critical, Answers
<1>7. ASSUME NEW r \in Requests, Render(r)
      PROVE  LockInv' /\ AnswerInv'
  BY <1>3, <1>4, <1>7 DEF Render, At, Critical, Answers
<1>8. ASSUME NEW r \in Requests, WriteManifest(r) \/ WriteContent(r) \/ WriteRoadmap(r)
      PROVE  LockInv' /\ AnswerInv'
  BY <1>4, <1>8 DEF WriteManifest, WriteContent, WriteRoadmap, Whole, At, Critical
<1>9. ASSUME NEW r \in Requests, Reread(r)
      PROVE  LockInv' /\ AnswerInv'
  BY <1>3, <1>9 DEF Reread, At, Critical, Answers
<1>10. ASSUME NEW r \in Requests, Fail(r)
       PROVE  LockInv' /\ AnswerInv'
  <2>1. pc[r] \in Critical
    BY <1>10 DEF Fail, Critical, TypeOK, Stages
  <2> QED
    BY <1>3, <1>10, <2>1 DEF Fail, Answers
<1>11. ASSUME NEW r \in Requests, Respond(r)
       PROVE  LockInv' /\ AnswerInv'
  BY <1>11 DEF Respond, At, Goto, TypeOK, LockInv, AnswerInv, Critical
<1>12. CASE Crash
  BY <1>12, TicketAssumption DEF Crash, LockInv, AnswerInv, Critical
<1>13. CASE FactoryMoves \/ UNCHANGED vars
  BY <1>13 DEF FactoryMoves, vars, LockInv, AnswerInv
<1>14. ASSUME NEW r \in Requests, RenderBlind(r)
       PROVE  LockInv' /\ AnswerInv'
  BY <1>4, <1>14 DEF RenderBlind, Critical
<1> QED
  BY <1>1, <1>2, <1>5, <1>6, <1>7, <1>8, <1>9, <1>10, <1>11, <1>12, <1>13, <1>14 DEF Next, Handle

\* A request that does not move keeps its plan, while the files stay.
LEMMA SamePlan ==
  ASSUME NEW q \in Requests, PlanInv(q), UNCHANGED disk, job'[q] = job[q],
         pc'[q] = pc[q], plan'[q] = plan[q]
  PROVE  PlanInv(q)'
BY DEF PlanInv, disk, RoadmapAfter, Entry

LEMMA NoPlanYet ==
  ASSUME NEW q \in Requests, pc'[q] \notin {"manifest", "content", "roadmap"}
  PROVE  PlanInv(q)'
BY DEF PlanInv

LEMMA PlannedFields ==
  ASSUME NEW r \in Requests, NEW p, p \in {Planned(job[r]), Blinded(Planned(job[r]))}
  PROVE  /\ p.manifest = [manifest EXCEPT ![job[r].id] = Entered(job[r])]
         /\ p.roadmap = IF RoadmapAfter(job[r]) = roadmap \/ p.blind THEN Unchanged
                        ELSE RoadmapAfter(job[r])
         /\ p.legacy <=> Entry(r) = Legacy
<1> DEFINE road == RoadmapAfter(job[r])
           new == [manifest EXCEPT ![job[r].id] = Entered(job[r])]
           legacy == manifest[job[r].id] = Legacy
<1>1. Planned(job[r]) = [manifest |-> new, roadmap |-> IF road = roadmap THEN Unchanged ELSE road,
                         legacy |-> legacy, blind |-> FALSE]
  BY DEF Planned, Entered
<1>2. legacy <=> Entry(r) = Legacy
  BY DEF Entry
<1> HIDE DEF road, new, legacy
<1>3. /\ Blinded(Planned(job[r])).manifest = new /\ Blinded(Planned(job[r])).roadmap = Unchanged
      /\ Blinded(Planned(job[r])).legacy = legacy /\ Blinded(Planned(job[r])).blind
  BY <1>1 DEF Blinded
<1>4. p.manifest = new /\ (p.legacy <=> legacy)
      /\ p.roadmap = IF road = roadmap \/ p.blind THEN Unchanged ELSE road
  BY <1>1, <1>3
<1> QED
  BY <1>2, <1>4 DEF road, new

LEMMA PlanStep ==
  ASSUME IInv, [Next]_vars, NEW q \in Requests
  PROVE  PlanInv(q)'
<1> USE DEF IInv
<1>1. ASSUME NEW r \in Requests, NEW j \in Jobs, Arrive(r, j)
      PROVE  PlanInv(q)'
  <2>1. pc'[r] = "waiting" /\ UNCHANGED <<disk, plan>>
        /\ \A s \in Requests \ {r} : pc'[s] = pc[s] /\ job'[s] = job[s]
    BY <1>1 DEF Arrive, Goto, TypeOK
  <2> QED
    BY <2>1, SamePlan, NoPlanYet
<1>2. ASSUME NEW r \in Requests, NEW stage \in Stages \ {"manifest", "content", "roadmap"},
             Goto(r, stage), UNCHANGED <<disk, plan, job>>
      PROVE  PlanInv(q)'
  <2>1. pc'[r] = stage /\ \A s \in Requests \ {r} : pc'[s] = pc[s]
    BY <1>2 DEF Goto, TypeOK
  <2> QED
    BY <1>2, <2>1, SamePlan, NoPlanYet
<1>3. ASSUME NEW r \in Requests, NEW a \in Answers, Finish(r, a), UNCHANGED <<disk, job>>
      PROVE  PlanInv(q)'
  <2>1. pc'[r] = "done" /\ \A s \in Requests \ {r} : pc'[s] = pc[s] /\ plan'[s] = plan[s]
    BY <1>3 DEF Finish, Goto, TypeOK
  <2> QED
    BY <1>3, <2>1, SamePlan, NoPlanYet
<1>4. ASSUME NEW r \in Requests, Acquire(r) \/ Check(r) \/ Gate(r) \/ Reread(r) \/ Respond(r)
      PROVE  PlanInv(q)'
  BY <1>2, <1>3, <1>4 DEF Acquire, Check, Gate, Reread, Respond, At, Stages, Answers
<1>5. ASSUME NEW r \in Requests, NEW p \in {Planned(job[r]), Blinded(Planned(job[r]))},
             UNCHANGED <<disk, job>>,
             (job[r].op = "create") = (Entry(r) = NoEntry),
             ~(job[r].op = "edit" /\ Entry(r) = Legacy),
             ~job[r].dry,
             plan' = [plan EXCEPT ![r] = p],
             Goto(r, "manifest")
      PROVE  PlanInv(q)'
  <2>1. /\ pc'[r] = "manifest" /\ plan'[r] = p
        /\ \A s \in Requests \ {r} : pc'[s] = pc[s] /\ plan'[s] = plan[s]
    BY <1>5 DEF Goto, TypeOK
  <2>2. CASE q = r
    <3>1. /\ plan'[r].manifest = [manifest EXCEPT ![job[r].id] = Entered(job[r])]
          /\ plan'[r].roadmap = IF RoadmapAfter(job[r]) = roadmap \/ plan'[r].blind
                                THEN Unchanged ELSE RoadmapAfter(job[r])
          /\ plan'[r].legacy <=> Entry(r) = Legacy
      BY <2>1, PlannedFields
    <3>2. /\ Entry(r)' = Entry(r) /\ RoadmapAfter(job[r])' = RoadmapAfter(job[r])
          /\ roadmap' = roadmap /\ manifest' = manifest /\ job'[r] = job[r]
          /\ Entered(job[r])' = Entered(job[r])
      BY <1>5 DEF disk, RoadmapAfter, Entry, Entered
    <3> QED
      BY <1>5, <2>1, <2>2, <3>1, <3>2 DEF PlanInv
  <2>3. CASE q # r
    BY <1>5, <2>1, <2>3, SamePlan
  <2> QED
    BY <2>2, <2>3
<1>12. ASSUME NEW r \in Requests, Render(r)
       PROVE  PlanInv(q)'
  <2>1. UNCHANGED <<disk, job>>
    BY <1>12 DEF Render, At
  <2>2. CASE \E a \in Answers : Finish(r, a)
    BY <1>3, <2>1, <2>2
  <2>3. CASE /\ (job[r].op = "create") = (Entry(r) = NoEntry)
             /\ ~(job[r].op = "edit" /\ Entry(r) = Legacy)
             /\ ~job[r].dry
             /\ plan' = [plan EXCEPT ![r] = Planned(job[r])]
             /\ Goto(r, "manifest")
    BY <1>5, <2>1, <2>3
  <2> QED
    BY <1>12, <2>2, <2>3 DEF Render, Answers
<1>13. ASSUME NEW r \in Requests, RenderBlind(r)
       PROVE  PlanInv(q)'
  BY <1>5, <1>13 DEF RenderBlind, Blinded
<1>6. ASSUME NEW r \in Requests, WriteManifest(r)
      PROVE  PlanInv(q)'
  <2>1. /\ pc[r] = "manifest" /\ pc'[r] = "content" /\ manifest' = plan[r].manifest
        /\ \A s \in Requests \ {r} : pc'[s] = pc[s]
        /\ UNCHANGED <<roadmap, plan, job>>
    BY <1>6 DEF WriteManifest, At, Goto, TypeOK
  <2>2. CASE q = r
    <3>1. manifest'[job[r].id] = Entered(job[r])
      BY <2>1, JobTypes DEF PlanInv, TypeOK
    <3>2. plan[r].legacy => job[r].op = "delete"
      BY <2>1, JobTypes, TicketAssumption DEF PlanInv
    <3> QED
      BY <2>1, <2>2, <3>1, <3>2 DEF PlanInv, RoadmapAfter, Entry, Entered
  <2>3. CASE q # r
    BY <2>1, <2>3, Alone, NoPlanYet DEF Critical
  <2> QED
    BY <2>2, <2>3
<1>7. ASSUME NEW r \in Requests, WriteContent(r)
      PROVE  PlanInv(q)'
  <2>1. /\ pc[r] = "content" /\ \A s \in Requests \ {r} : pc'[s] = pc[s]
        /\ UNCHANGED <<manifest, roadmap, plan, job>>
        /\ \/ pc'[r] = "reread"
           \/ pc'[r] = "roadmap" /\ plan[r].roadmap # Unchanged
    BY <1>7 DEF WriteContent, Whole, At, Goto, TypeOK
  <2>2. CASE q = r
    BY <2>1, <2>2 DEF PlanInv, RoadmapAfter, Entry
  <2>3. CASE q # r
    BY <2>1, <2>3, Alone, NoPlanYet DEF Critical
  <2> QED
    BY <2>2, <2>3
<1>8. ASSUME NEW r \in Requests, WriteRoadmap(r)
      PROVE  PlanInv(q)'
  <2>1. /\ pc[r] = "roadmap" /\ pc'[r] = "reread" /\ \A s \in Requests \ {r} : pc'[s] = pc[s]
    BY <1>8 DEF WriteRoadmap, Whole, At, Goto, TypeOK
  <2> QED
    BY <2>1, Alone, NoPlanYet DEF Critical
<1>9. ASSUME NEW r \in Requests, Fail(r)
      PROVE  PlanInv(q)'
  BY <1>3, <1>9 DEF Fail, Answers
<1>10. CASE Crash
  BY <1>10, NoPlanYet DEF Crash
<1>11. CASE FactoryMoves \/ UNCHANGED vars
  BY <1>11, SamePlan DEF FactoryMoves, vars
<1> QED
  BY <1>1, <1>4, <1>6, <1>7, <1>8, <1>9, <1>10, <1>11, <1>12, <1>13 DEF Next, Handle

-----------------------------------------------------------------------------
\* The files stay and nobody enters or leaves the writing of a change set.
Quiet ==
  /\ UNCHANGED <<disk, tears>>
  /\ \A q \in Requests :
       \/ pc'[q] = pc[q] /\ job'[q] = job[q] /\ plan'[q] = plan[q]
       \/ pc[q] \notin {"content", "roadmap"} /\ pc'[q] \notin {"content", "roadmap"}

LEMMA QuietKeeps ==
  ASSUME IInv, Quiet, NEW i \in Id
  PROVE  FilesInv(i)' /\ LinesInv(i)'
<1>1. /\ Written(i)' <=> Written(i)
      /\ Cut(i)' <=> Cut(i)
      /\ Astray(i)' <=> Astray(i)
  BY DEF Quiet, Written, Halfway, Cut, Astray, tears
<1>2. \A q \in Requests : pc'[q] \in {"content", "roadmap"} =>
        pc'[q] = pc[q] /\ job'[q] = job[q] /\ plan'[q] = plan[q]
  BY DEF Quiet
<1>3. FilesInv(i) /\ LinesInv(i)
  BY DEF IInv
<1>4. FilesInv(i)'
  BY <1>1, <1>2, <1>3 DEF FilesInv, Quiet, disk, tears
<1>5. LinesInv(i)'
  BY <1>1, <1>2, <1>3 DEF LinesInv, Quiet, disk, tears, Halfway
<1> QED
  BY <1>4, <1>5

\* Whatever was halfway is given up and recorded as torn.
LEMMA TearKeeps ==
  ASSUME IInv, NEW i \in Id, UNCHANGED disk,
         \A q \in Requests : pc'[q] \notin {"content", "roadmap"},
         torn' = torn \cup Tears(Requests), astray' = astray \cup Tears(Requests)
  PROVE  FilesInv(i)' /\ LinesInv(i)'
<1>1. ~Written(i)' /\ Halfway' = {} /\ (Cut(i) => Cut(i)') /\ (Astray(i) => Astray(i)')
      /\ torn \subseteq torn' /\ astray \subseteq astray'
  BY DEF Written, Halfway, Cut, Astray
<1>2. FilesInv(i) /\ LinesInv(i)
  BY DEF IInv
<1>3. ASSUME Written(i), <<i, "delete">> \notin Tears(Requests)
      PROVE  /\ Cut(i)' /\ Astray(i)' /\ manifest[i] \in Revision
             /\ <<i, "delete">> \notin torn => i \notin md
  <2>1. PICK r \in Halfway : job[r].id = i
    BY <1>3 DEF Written
  <2>2. r \in Requests /\ pc[r] \in {"content", "roadmap"}
    BY <2>1 DEF Halfway
  <2>3. <<i, job[r].op>> \in Tears(Requests)
    BY <2>1, <2>2 DEF Tears
  <2>4. job[r].op \in {"create", "edit"}
    BY <1>3, <2>2, <2>3, JobTypes DEF IInv
  <2>5. Cut(i)' /\ Astray(i)'
    BY <2>3, <2>4 DEF Cut, Astray
  <2>6. manifest[i] \in Revision /\ ~plan[r].legacy
    BY <2>1, <2>2, <2>4, JobTypes DEF IInv, PlanInv, Entry
  <2>7. <<i, "delete">> \notin torn => i \notin md
    BY <1>2, <2>1, <2>2, <2>6 DEF FilesInv
  <2> QED
    BY <2>5, <2>6, <2>7
<1>4. CASE Written(i) /\ <<i, "delete">> \notin Tears(Requests)
  <2>1. FilesInv(i)'
    BY <1>1, <1>3, <1>4, TicketAssumption DEF FilesInv, disk
  <2>2. LinesInv(i)'
    BY <1>1, <1>2, <1>3, <1>4, TicketAssumption DEF LinesInv, disk
  <2> QED
    BY <2>1, <2>2
<1>5. CASE ~Written(i)
  BY <1>1, <1>2, <1>5 DEF FilesInv, LinesInv, disk
<1>6. CASE <<i, "delete">> \in Tears(Requests)
  BY <1>6 DEF FilesInv, LinesInv
<1> QED
  BY <1>4, <1>5, <1>6

\* The request that writes is the only one.
LEMMA OneWriter ==
  ASSUME IInv, NEW r \in Requests, pc[r] \in {"manifest", "content", "roadmap"}
  PROVE  /\ Halfway = IF pc[r] = "manifest" THEN {} ELSE {r}
         /\ \A i \in Id : Written(i) <=> pc[r] # "manifest" /\ job[r].id = i
<1>1. \A q \in Requests \ {r} : pc[q] \notin {"content", "roadmap"}
  BY Alone DEF IInv, Critical
<1>2. Halfway = IF pc[r] = "manifest" THEN {} ELSE {r}
  BY <1>1 DEF Halfway
<1> QED
  BY <1>2 DEF Written

LEMMA ManifestKeeps ==
  ASSUME IInv, NEW r \in Requests, WriteManifest(r), NEW i \in Id
  PROVE  FilesInv(i)' /\ LinesInv(i)'
<1>1. /\ pc[r] = "manifest" /\ pc'[r] = "content"
      /\ \A q \in Requests \ {r} : pc'[q] = pc[q]
      /\ manifest' = plan[r].manifest
      /\ UNCHANGED <<json, md, roadmap, plan, torn, astray, job>>
  BY DEF WriteManifest, At, Goto, IInv, TypeOK, tears
<1>2. \A q \in Requests \ {r} : pc'[q] \notin {"content", "roadmap"}
  BY <1>1, Alone DEF IInv, Critical
<1>3. /\ Halfway' = {r} /\ (Written(i)' <=> i = job[r].id)
      /\ Cut(i)' <=> Cut(i)
      /\ Astray(i)' <=> Astray(i)
  BY <1>1, <1>2 DEF Halfway, Written, Cut, Astray
<1>4. ~Written(i) /\ FilesInv(i) /\ LinesInv(i) /\ PlanInv(r)
  BY <1>1, OneWriter DEF IInv
<1>5. manifest' = [manifest EXCEPT ![job[r].id] = Entered(job[r])]
  BY <1>1, <1>4 DEF PlanInv
<1>6. CASE i = job[r].id
  <2>1. /\ plan[r].legacy <=> manifest[i] = Legacy
        /\ job[r].op = "create" => manifest[i] = NoEntry
    BY <1>1, <1>4, <1>6 DEF PlanInv, Entry
  <2>2. FilesInv(i)'
    BY <1>1, <1>2, <1>3, <1>4, <1>6, <2>1 DEF FilesInv
  <2>3. LinesInv(i)'
    BY <1>1, <1>3, <1>4, <1>6, <2>1 DEF LinesInv
  <2> QED
    BY <2>2, <2>3
<1>7. CASE i # job[r].id
  <2>1. manifest'[i] = manifest[i]
    BY <1>5, <1>7 DEF IInv, TypeOK
  <2>2. FilesInv(i)'
    BY <1>1, <1>2, <1>3, <1>4, <1>7, <2>1 DEF FilesInv
  <2>3. LinesInv(i)'
    BY <1>1, <1>3, <1>4, <1>7, <2>1 DEF LinesInv
  <2> QED
    BY <2>2, <2>3
<1> QED
  BY <1>6, <1>7

\* A change set that is complete.
LEMMA WholeDoes ==
  ASSUME IInv, NEW r \in Requests, pc[r] \in {"content", "roadmap"}, Whole(r), job' = job
  PROVE  /\ pc'[r] = "reread" /\ \A q \in Requests : pc'[q] \notin {"content", "roadmap"}
         /\ Halfway' = {} /\ \A i \in Id : ~Written(i)'
         /\ \A i \in Id : <<i, "delete">> \in torn' <=> <<i, "delete">> \in torn
         /\ \A i \in Id \ {job[r].id} :
              /\ Cut(i)' <=> Cut(i)
              /\ Astray(i)' <=> Astray(i)
              /\ <<i, "delete">> \in astray' <=> <<i, "delete">> \in astray
         /\ <<job[r].id, "delete">> \in astray => <<job[r].id, "delete">> \in astray'
         /\ plan[r].blind /\ job[r].op # "create" => <<job[r].id, job[r].op>> \in astray'
<1>1. /\ pc'[r] = "reread" /\ \A q \in Requests \ {r} : pc'[q] = pc[q]
      /\ torn' = torn \ ({job[r].id} \X {"create", "edit"})
      /\ \/ astray' = astray \ ({job[r].id} \X {"create", "edit"})
         \/ astray' = astray
         \/ astray' = astray \cup {<<job[r].id, job[r].op>>}
  BY DEF Whole, Goto, IInv, TypeOK
<1>2. \A q \in Requests : pc'[q] \notin {"content", "roadmap"}
  BY <1>1, Alone DEF IInv, Critical
<1>3. Halfway' = {} /\ \A i \in Id : ~Written(i)'
  BY <1>2 DEF Halfway, Written
<1>4. \A i \in Id : <<i, "delete">> \in torn' <=> <<i, "delete">> \in torn
  BY <1>1
<1>5. \A i \in Id \ {job[r].id} : Cut(i)' <=> Cut(i)
  BY <1>1 DEF Cut
<1>6. ASSUME NEW i \in Id \ {job[r].id}
      PROVE  /\ Astray(i)' <=> Astray(i)
             /\ <<i, "delete">> \in astray' <=> <<i, "delete">> \in astray
  <2>1. \A op : <<i, op>> \in astray' <=> <<i, op>> \in astray
    BY <1>1
  <2> QED
    BY <2>1 DEF Astray
<1>7. <<job[r].id, "delete">> \in astray => <<job[r].id, "delete">> \in astray'
  BY <1>1
<1>8. plan[r].blind /\ job[r].op # "create" => <<job[r].id, job[r].op>> \in astray'
  BY DEF Whole
<1> QED
  BY <1>1, <1>2, <1>3, <1>4, <1>5, <1>6, <1>7, <1>8

LEMMA ContentKeeps ==
  ASSUME IInv, NEW r \in Requests, WriteContent(r), NEW i \in Id
  PROVE  FilesInv(i)' /\ LinesInv(i)'
<1>1. /\ pc[r] = "content" /\ UNCHANGED <<manifest, roadmap, plan, job>>
      /\ \A q \in Requests \ {r} : pc'[q] = pc[q]
      /\ \/ Whole(r) /\ plan[r].roadmap = Unchanged
         \/ pc'[r] = "roadmap" /\ torn' = torn /\ astray' = astray
  BY DEF WriteContent, Whole, At, Goto, IInv, TypeOK, tears
<1>2. PlanInv(r) /\ FilesInv(i) /\ LinesInv(i) /\ roadmap \in Roads
  BY DEF IInv, TypeOK
<1>3. Halfway = {r} /\ (Written(i) <=> job[r].id = i)
  BY <1>1, OneWriter
<1>4. \A q \in Requests \ {r} : pc'[q] \notin {"content", "roadmap"}
  BY <1>1, Alone DEF IInv, Critical
<1>5. CASE i # job[r].id
  <2>1. json'[i] = json[i] /\ (i \in md' <=> i \in md)
    BY <1>5 DEF WriteContent, IInv, TypeOK
  <2>2. /\ ~Written(i)'
        /\ Cut(i)' <=> Cut(i)
        /\ Astray(i)' <=> Astray(i)
        /\ <<i, "delete">> \in torn' <=> <<i, "delete">> \in torn
        /\ <<i, "delete">> \in astray' <=> <<i, "delete">> \in astray
        /\ Halfway' \subseteq {r}
    BY <1>1, <1>4, <1>5, WholeDoes DEF Written, Halfway, Cut, Astray
  <2> QED
    BY <1>1, <1>2, <1>3, <1>4, <1>5, <2>1, <2>2 DEF FilesInv, LinesInv
<1>6. CASE i = job[r].id
  <2>1. manifest[i] = Entered(job[r]) /\ manifest[i] # Legacy
    BY <1>1, <1>2, <1>6, JobTypes DEF PlanInv, Entry, IInv
  <2>2. ASSUME <<i, "delete">> \notin torn'
        PROVE  FilesInv(i)'
    <3>1. <<i, "delete">> \notin torn
      BY <1>1, <1>6, <2>2, WholeDoes, JobTypes DEF IInv
    <3>2. CASE plan[r].legacy
      <4>1. job[r].op = "delete" /\ json[i] = NoEntry /\ manifest[i] = NoEntry
        BY <1>1, <1>2, <1>6, <2>1, <3>1, <3>2, JobTypes DEF FilesInv, PlanInv, IInv
      <4>2. i \notin md' /\ json'[i] = manifest[i]
        BY <1>6, <3>2, <4>1 DEF WriteContent
      <4> QED
        BY <1>1, <1>4, <1>6, <2>1, <4>2, WholeDoes DEF FilesInv
    <3>3. CASE ~plan[r].legacy
      <4>1. i \notin md
        BY <1>1, <1>2, <1>6, <3>1, <3>3 DEF FilesInv
      <4>2. i \notin md' /\ json'[i] = manifest[i]
        BY <1>6, <2>1, <3>3, <4>1 DEF WriteContent, IInv, TypeOK, Entered
      <4> QED
        BY <1>1, <1>4, <1>6, <2>1, <4>2, WholeDoes DEF FilesInv
    <3> QED
      BY <3>2, <3>3
  <2>3. ASSUME <<i, "delete">> \notin astray', pc'[r] = "roadmap", astray' = astray
        PROVE  LinesInv(i)'
    <3>1. Halfway' = {r} /\ Written(i)'
      BY <1>1, <1>4, <1>6, <2>3 DEF Halfway, Written
    <3> QED
      BY <1>1, <1>2, <1>3, <2>3, <3>1 DEF LinesInv
  <2>4. ASSUME <<i, "delete">> \notin astray', Whole(r), plan[r].roadmap = Unchanged
        PROVE  LinesInv(i)'
    <3>1. /\ Halfway' = {} /\ ~Written(i)' /\ <<i, "delete">> \notin astray
          /\ plan[r].blind /\ job[r].op # "create" => <<i, job[r].op>> \in astray'
      BY <1>1, <1>6, <2>4, WholeDoes
    <3>2. /\ job[r].op = "create" => None(roadmap, i)
          /\ Single(roadmap, i)
      BY <1>2, <1>3, <1>6, <3>1 DEF LinesInv
    <3>3. manifest[i] = NoEntry <=> job[r].op = "delete"
      BY <2>1, JobTypes DEF IInv
    <3>4. CASE plan[r].blind
      <4>1. job[r].op # "delete"
        BY <1>6, <2>4, <3>1, <3>4
      <4>2. job[r].op = "edit" => Astray(i)'
        BY <1>6, <3>1, <3>4 DEF Astray
      <4>3. job[r].op = "create" => Says(roadmap, i, manifest[i])
        BY <3>2, NoneIsAll
      <4> QED
        BY <1>1, <1>6, <3>1, <3>2, <3>3, <4>1, <4>2, <4>3, JobTypes DEF LinesInv, IInv
    <3>5. CASE ~plan[r].blind
      <4>1. RoadmapAfter(job[r]) = roadmap \/ RoadmapAfter(job[r]) = Unchanged
        BY <1>1, <1>2, <2>4, <3>5 DEF PlanInv
      <4>2. RoadmapAfter(job[r]) = roadmap
        <5>1. RoadmapAfter(job[r]) \in Roads
          BY <1>2, JobTypes, RoadmapChanges DEF IInv
        <5>2. Unchanged \in Roads => Sections = {} /\ roadmap = Unchanged
          BY <1>2 DEF Roads, Unchanged
        <5> QED
          BY <4>1, <5>1, <5>2
      <4>3. /\ job[r].op # "delete" => Says(roadmap, i, manifest[i])
            /\ job[r].op = "delete" => None(roadmap, i)
        BY <1>2, <1>6, <2>1, <3>2, <4>2, JobTypes, RoadmapChanges DEF IInv, Entered
      <4>4. Says(roadmap, i, manifest[i])
        BY <4>3, NoneIsAll
      <4> QED
        BY <1>1, <3>1, <3>2, <3>3, <4>3, <4>4 DEF LinesInv
    <3> QED
      BY <3>4, <3>5
  <2>5. <<i, "delete">> \in torn' => FilesInv(i)'
    BY DEF FilesInv
  <2>6. <<i, "delete">> \in astray' => LinesInv(i)'
    BY DEF LinesInv
  <2> QED
    BY <1>1, <2>2, <2>3, <2>4, <2>5, <2>6
<1> QED
  BY <1>5, <1>6

LEMMA RoadmapKeeps ==
  ASSUME IInv, NEW r \in Requests, WriteRoadmap(r), NEW i \in Id
  PROVE  FilesInv(i)' /\ LinesInv(i)'
<1>1. /\ pc[r] = "roadmap" /\ UNCHANGED <<manifest, json, md, plan, job>>
      /\ Whole(r) /\ roadmap' = plan[r].roadmap
  BY DEF WriteRoadmap, At
<1>2. PlanInv(r) /\ FilesInv(i) /\ LinesInv(i) /\ roadmap \in Roads /\ job[r] \in Jobs
  BY JobTypes DEF IInv, TypeOK
<1>3. roadmap' = RoadmapAfter(job[r])
  BY <1>1, <1>2 DEF PlanInv
<1>4. Halfway = {r} /\ (Written(i) <=> job[r].id = i)
  BY <1>1, OneWriter
<1>5. /\ Halfway' = {} /\ ~Written(i)'
      /\ \A q \in Requests : pc'[q] \notin {"content", "roadmap"}
      /\ <<i, "delete">> \in torn' <=> <<i, "delete">> \in torn
      /\ <<i, "delete">> \in astray => <<i, "delete">> \in astray'
      /\ i # job[r].id =>
           /\ Cut(i)' <=> Cut(i)
           /\ Astray(i)' <=> Astray(i)
           /\ <<i, "delete">> \in astray' <=> <<i, "delete">> \in astray
  BY <1>1, WholeDoes
<1>6. CASE i # job[r].id
  <2>1. Kept(roadmap, roadmap', i)
    BY <1>2, <1>3, <1>6, RoadmapChanges
  <2>2. manifest[i] \in Text \/ manifest[i] = NoEntry
    BY DEF IInv, TypeOK, Entries, Text
  <2>3. FilesInv(i)'
    BY <1>1, <1>2, <1>4, <1>5, <1>6 DEF FilesInv
  <2>4. LinesInv(i)'
    BY <1>1, <1>2, <1>4, <1>5, <1>6, <2>1, <2>2, NoneIsAll DEF LinesInv, Kept
  <2> QED
    BY <2>3, <2>4
<1>7. CASE i = job[r].id
  <2>1. manifest[i] = Entered(job[r]) /\ manifest[i] # Legacy
    BY <1>1, <1>2, <1>7, JobTypes DEF PlanInv, Entry, IInv
  <2>2. ASSUME <<i, "delete">> \notin torn'
        PROVE  FilesInv(i)'
    <3>1. i \notin md /\ json[i] = manifest[i]
      BY <1>1, <1>2, <1>5, <1>7, <2>2 DEF FilesInv
    <3> QED
      BY <1>1, <1>5, <2>1, <3>1 DEF FilesInv
  <2>3. ASSUME <<i, "delete">> \notin astray'
        PROVE  LinesInv(i)'
    <3>1. /\ job[r].op = "create" => None(roadmap, i)
          /\ Single(roadmap, i)
      BY <1>2, <1>4, <1>5, <1>7, <2>3 DEF LinesInv
    <3>2. /\ job[r].op # "delete" => Single(roadmap', i) /\ Says(roadmap', i, manifest[i])
          /\ job[r].op = "delete" => None(roadmap', i)
      BY <1>2, <1>3, <1>7, <2>1, <3>1, JobTypes, RoadmapChanges DEF IInv, Entered
    <3>3. manifest[i] = NoEntry => job[r].op = "delete"
      BY <2>1, JobTypes DEF IInv
    <3>4. Single(roadmap', i) /\ Says(roadmap', i, manifest[i])
      BY <3>2, NoneIsAll
    <3> QED
      BY <1>1, <1>5, <3>2, <3>3, <3>4 DEF LinesInv
  <2>4. <<i, "delete">> \in torn' => FilesInv(i)'
    BY DEF FilesInv
  <2>5. <<i, "delete">> \in astray' => LinesInv(i)'
    BY DEF LinesInv
  <2> QED
    BY <2>2, <2>3, <2>4, <2>5
<1> QED
  BY <1>6, <1>7

\* A step of a request that neither is nor comes to be halfway.
LEMMA QuietMove ==
  ASSUME IInv, NEW r \in Requests, pc[r] \notin {"content", "roadmap"},
         pc'[r] \notin {"content", "roadmap"}, UNCHANGED <<disk, tears>>,
         \A q \in Requests \ {r} : pc'[q] = pc[q] /\ job'[q] = job[q] /\ plan'[q] = plan[q]
  PROVE  \A i \in Id : FilesInv(i)' /\ LinesInv(i)'
<1>1. Quiet
  BY DEF Quiet
<1> QED
  BY <1>1, QuietKeeps

LEMMA FilesStep ==
  ASSUME IInv, [Next]_vars, NEW i \in Id
  PROVE  FilesInv(i)' /\ LinesInv(i)'
<1>1. ASSUME NEW r \in Requests, NEW j \in Jobs, Arrive(r, j)
      PROVE  FilesInv(i)' /\ LinesInv(i)'
  <2>1. /\ pc[r] = "idle" /\ pc'[r] = "waiting" /\ UNCHANGED <<disk, tears, plan>>
        /\ \A q \in Requests \ {r} : pc'[q] = pc[q] /\ job'[q] = job[q]
    BY <1>1 DEF Arrive, Goto, IInv, TypeOK
  <2> QED
    BY <2>1, QuietMove
<1>2. ASSUME NEW r \in Requests, pc[r] \notin {"content", "roadmap"},
             NEW stage \in Stages \ {"content", "roadmap"}, Goto(r, stage),
             UNCHANGED <<disk, tears, job>>,
             \A q \in Requests \ {r} : plan'[q] = plan[q]
      PROVE  FilesInv(i)' /\ LinesInv(i)'
  <2>1. pc'[r] = stage /\ \A q \in Requests \ {r} : pc'[q] = pc[q]
    BY <1>2 DEF Goto, IInv, TypeOK
  <2> QED
    BY <1>2, <2>1, QuietMove
<1>3. ASSUME NEW r \in Requests, Acquire(r) \/ Check(r) \/ Gate(r) \/ Render(r)
                                 \/ RenderBlind(r) \/ Reread(r) \/ Respond(r)
      PROVE  FilesInv(i)' /\ LinesInv(i)'
  <2>1. /\ pc[r] \notin {"content", "roadmap"} /\ UNCHANGED <<disk, tears, job>>
        /\ \E stage \in Stages \ {"content", "roadmap"} : Goto(r, stage)
    BY <1>3 DEF Acquire, Check, Gate, Render, RenderBlind, Reread, Respond, Finish, At, Stages
  <2>2. \A q \in Requests \ {r} : plan'[q] = plan[q]
    BY <1>3 DEF Acquire, Check, Gate, Render, RenderBlind, Reread, Respond, Finish, IInv, TypeOK
  <2> QED
    BY <1>2, <2>1, <2>2
<1>4. ASSUME NEW r \in Requests, Fail(r)
      PROVE  FilesInv(i)' /\ LinesInv(i)'
  <2>1. pc[r] \in Critical
    BY <1>4 DEF Fail, Critical, IInv, TypeOK, Stages
  <2>2. /\ pc'[r] = "done" /\ UNCHANGED <<disk, job>>
        /\ \A q \in Requests \ {r} : pc'[q] = pc[q] /\ pc'[q] \notin {"content", "roadmap"}
    BY <1>4, <2>1, Alone DEF Fail, Finish, Goto, IInv, TypeOK, Critical
  <2>3. Halfway \subseteq {r}
    BY <2>2 DEF Halfway
  <2>4. torn' = torn \cup Tears(Requests) /\ astray' = astray \cup Tears(Requests)
    BY <1>4, <2>3 DEF Fail, Tears
  <2>5. \A q \in Requests : pc'[q] \notin {"content", "roadmap"}
    BY <2>2
  <2> QED
    BY <2>2, <2>4, <2>5, TearKeeps
<1>5. CASE Crash
  BY <1>5, TearKeeps DEF Crash
<1>6. CASE FactoryMoves \/ UNCHANGED vars
  <2>1. Quiet
    BY <1>6 DEF FactoryMoves, vars, Quiet, disk
  <2> QED
    BY <2>1, QuietKeeps
<1> QED
  BY <1>1, <1>3, <1>4, <1>5, <1>6, ManifestKeeps, ContentKeeps, RoadmapKeeps DEF Next, Handle

LEMMA SetToSeqDoes ==
  ASSUME NEW S, IsFiniteSet(S)
  PROVE  /\ SetToSeq(S) \in Seq(S)
         /\ \A k, l \in 1 .. Len(SetToSeq(S)) :
              SetToSeq(S)[k] = SetToSeq(S)[l] => k = l
<1>1. Cardinality(S) \in Nat
      /\ \E f \in [1 .. Cardinality(S) -> S] : IsInjective(f)
  BY FS_CardinalityType DEF ExistsBijection, Bijection, Injection
<1>2. SetToSeq(S) \in [1 .. Cardinality(S) -> S] /\ IsInjective(SetToSeq(S))
  BY <1>1 DEF SetToSeq
<1> HIDE DEF SetToSeq
<1>3. SetToSeq(S) \in Seq(S) /\ Len(SetToSeq(S)) = Cardinality(S)
  BY <1>1, <1>2
<1> QED
  BY <1>2, <1>3 DEF IsInjective

LEMMA InitInv == Init => IInv
<1> SUFFICES ASSUME Init PROVE IInv
  OBVIOUS
<1> DEFINE Lines(s) == {l \in Line : l.rev = manifest[l.id] /\ SectionOf[l.rev] = s}
<1>1. manifest \in [Id -> Entries]
  BY TicketAssumption DEF Init, Entries
<1>2. ASSUME NEW s \in Sections
      PROVE  IsFiniteSet(Lines(s))
  <2> DEFINE f == [l \in Lines(s) |-> l.id]
  <2>1. \A l, m \in Lines(s) : l.id = m.id => l = m
    BY DEF Line
  <2>2. f \in [Lines(s) -> Id]
    BY DEF Line
  <2>3. f \in Injection(Lines(s), Id)
    BY <2>1, <2>2 DEF Injection, IsInjective
  <2> QED
    BY <2>3, FS_Injection, TicketAssumption
<1>3. ASSUME NEW s \in Sections
      PROVE  /\ roadmap[s] \in Seq(Lines(s))
             /\ \A k, l \in 1 .. Len(roadmap[s]) : roadmap[s][k] = roadmap[s][l] => k = l
  <2>1. roadmap[s] = SetToSeq(Lines(s))
    BY DEF Init
  <2> QED
    BY <1>2, <2>1, SetToSeqDoes
<1>4. \A s \in Sections : roadmap[s] \in Seq(Line)
  <2>1. \A s \in Sections : Lines(s) \subseteq Line
    OBVIOUS
  <2> HIDE DEF Lines
  <2> QED
    BY <1>3, <2>1, SeqMonotonic
<1>5. roadmap \in Roads
  BY <1>4 DEF Init, Roads
<1>6. \A s \in Sections : \A k \in 1 .. Len(roadmap[s]) : roadmap[s][k] \in Lines(s)
  BY <1>3, ElementOfSeq
<1>7. ASSUME NEW i \in Id
      PROVE  Says(roadmap, i, manifest[i]) /\ Single(roadmap, i)
             /\ (manifest[i] = NoEntry => None(roadmap, i))
  <2>1. Says(roadmap, i, manifest[i])
    BY <1>6 DEF Says
  <2>2. manifest[i] = NoEntry => None(roadmap, i)
    BY <1>6, TicketAssumption DEF None, Line
  <2>3. Single(roadmap, i)
    <3> SUFFICES ASSUME NEW s \in Sections, NEW t \in Sections,
                        NEW k \in 1 .. Len(roadmap[s]), NEW l \in 1 .. Len(roadmap[t]),
                        roadmap[s][k].id = i, roadmap[t][l].id = i
                 PROVE  s = t /\ k = l
      BY DEF Single
    <3>1. roadmap[s][k] \in Lines(s) /\ roadmap[t][l] \in Lines(t)
      BY <1>6
    <3>2. roadmap[s][k] = roadmap[t][l]
      BY <3>1 DEF Line
    <3>3. s = t
      BY <3>1, <3>2
    <3> QED
      BY <1>3, <3>2, <3>3
  <2> QED
    BY <2>1, <2>2, <2>3
<1> HIDE DEF Lines
<1>8. TypeOK
  <2>1. json \in [Id -> Revision \cup {NoEntry}] /\ md \subseteq Id
    BY <1>1 DEF Init, Entries
  <2>2. queue \in Seq(Requests)
    BY EmptySeq DEF Init
  <2> QED
    BY <1>1, <1>5, <2>1, <2>2, TicketAssumption DEF Init, TypeOK, Stages, Answers
<1>9. Halfway = {} /\ torn = {} /\ astray = {} /\ \A i \in Id : ~Written(i) /\ ~Cut(i) /\ ~Astray(i)
  BY DEF Init, Halfway, Written, Cut, Astray
<1>10. LockInv /\ AnswerInv /\ \A r \in Requests : PlanInv(r)
  BY TicketAssumption DEF Init, LockInv, AnswerInv, Critical, PlanInv
<1>11. \A i \in Id : FilesInv(i)
  BY <1>9, TicketAssumption DEF Init, FilesInv
<1>12. \A i \in Id : LinesInv(i)
  BY <1>7, <1>9 DEF LinesInv
<1> QED
  BY <1>8, <1>10, <1>11, <1>12 DEF IInv

\* The files, the lock and the plans agree in every reachable state.
THEOREM Invariance == Spec => []IInv
<1>1. IInv /\ [Next]_vars => IInv'
  BY TypeStep, LockStep, PlanStep, FilesStep DEF IInv
<1> QED
  BY <1>1, InitInv, PTL DEF Spec

\* Every variable keeps to its description: no queue, plan or roadmap ever
\* holds what a step cannot use.
THEOREM TypeCorrect == Spec => []TypeOK
<1>1. IInv => TypeOK
  BY DEF IInv
<1> QED
  BY <1>1, Invariance, PTL

\* The write lock is held by exactly the request that is inside the critical
\* section: no two are, and no path, refusal, failure or crash leaves it held.
THEOREM LockHeld == Spec => [](LockInv)
<1>1. IInv => LockInv
  BY DEF IInv
<1> QED
  BY <1>1, Invariance, PTL

\* The index and the content documents agree, but for tickets an apply is
\* halfway through or was left halfway through.
THEOREM FilesAgree == Spec => []FilesCoupled
<1>1. IInv => FilesCoupled
  <2> SUFFICES ASSUME IInv, NEW i \in Id, ~Written(i), ~Cut(i)
               PROVE  /\ json[i] = IF manifest[i] = Legacy THEN NoEntry ELSE manifest[i]
                      /\ i \in md <=> manifest[i] = Legacy
    BY DEF FilesCoupled
  <2>1. <<i, "delete">> \notin torn
    BY DEF Cut
  <2> QED
    BY <2>1 DEF IInv, FilesInv
<1> QED
  BY <1>1, Invariance, PTL

\* The roadmap has at most one line for a ticket, with its present title, under its
\* milestone's section, and none for what is not a ticket, but for tickets an apply is
\* halfway through, was left halfway through, or edited or deleted without having been able
\* to read the roadmap.  It need not have one: a create may have left it out.
THEOREM RoadmapAgrees == Spec => []RoadmapCoupled
<1>1. IInv => RoadmapCoupled
  <2> SUFFICES ASSUME IInv, NEW i \in Id, ~Written(i), ~Astray(i), NEW p \in Places(roadmap, i)
               PROVE  /\ Places(roadmap, i) = {p}
                      /\ roadmap[p[1]][p[2]].rev = manifest[i]
                      /\ SectionOf[manifest[i]] \in {0, p[1]}
    BY DEF RoadmapCoupled
  <2>1. Single(roadmap, i) /\ Says(roadmap, i, manifest[i]) /\ roadmap \in Roads
    BY DEF Astray, IInv, LinesInv, TypeOK
  <2>2. \A q \in Places(roadmap, i) :
          /\ q = <<q[1], q[2]>> /\ q[1] \in Sections /\ q[2] \in 1 .. Len(roadmap[q[1]])
          /\ roadmap[q[1]][q[2]].id = i
    BY <2>1, PlacesAre
  <2>3. \A q \in Places(roadmap, i) : q = p
    BY <2>1, <2>2 DEF Single
  <2> QED
    BY <2>1, <2>2, <2>3 DEF Says
<1> QED
  BY <1>1, Invariance, PTL

-----------------------------------------------------------------------------
\* Which steps write what.
LEMMA Untouched ==
  ASSUME [Next]_vars
  PROVE  /\ manifest' = manifest \/ \E r \in Requests : WriteManifest(r)
         /\ json' = json \/ \E r \in Requests : WriteContent(r)
         /\ roadmap' = roadmap \/ \E r \in Requests : WriteRoadmap(r)
<1>1. ASSUME NEW r \in Requests, NEW j \in Jobs, Arrive(r, j)
      PROVE  UNCHANGED disk
  BY <1>1 DEF Arrive
<1>2. ASSUME NEW r \in Requests, Acquire(r) \/ Check(r) \/ Gate(r) \/ Render(r)
                                 \/ RenderBlind(r) \/ Reread(r) \/ Respond(r) \/ Fail(r)
      PROVE  UNCHANGED disk
  BY <1>2 DEF Acquire, Check, Gate, Render, RenderBlind, Reread, Respond, Fail
<1>3. ASSUME Crash \/ FactoryMoves \/ UNCHANGED vars
      PROVE  UNCHANGED disk
  BY <1>3 DEF Crash, FactoryMoves, vars
<1>4. ASSUME NEW r \in Requests, WriteManifest(r)
      PROVE  UNCHANGED <<json, roadmap>>
  BY <1>4 DEF WriteManifest
<1>5. ASSUME NEW r \in Requests, WriteContent(r)
      PROVE  UNCHANGED <<manifest, roadmap>>
  BY <1>5 DEF WriteContent
<1>6. ASSUME NEW r \in Requests, WriteRoadmap(r)
      PROVE  UNCHANGED <<manifest, json>>
  BY <1>6 DEF WriteRoadmap
<1> QED
  BY <1>1, <1>2, <1>3, <1>4, <1>5, <1>6 DEF Next, Handle, disk

\* The apply order: a content file and a roadmap line are only ever written to
\* what tickets.json says already, so a failure leaves them behind it.
THEOREM IndexLeads == Spec => FilesFollowManifest
<1> DEFINE Follows == \A i \in Id :
             /\ json'[i] # json[i] => json'[i] = manifest[i]
             /\ \A s \in Sections : \A l \in ToSet(roadmap'[s]) \ ToSet(roadmap[s]) :
                  l.id = i => l.rev = manifest[i]
<1>1. ASSUME IInv, [Next]_vars
      PROVE  Follows
  <2> SUFFICES ASSUME NEW i \in Id
               PROVE  /\ json'[i] # json[i] => json'[i] = manifest[i]
                      /\ \A s \in Sections : \A l \in ToSet(roadmap'[s]) \ ToSet(roadmap[s]) :
                           l.id = i => l.rev = manifest[i]
    OBVIOUS
  <2>1. ASSUME NEW r \in Requests, WriteContent(r), json'[i] # json[i]
        PROVE  json'[i] = manifest[i]
    <3>1. Entry(r) = Entered(job[r]) /\ ~plan[r].legacy
      BY <1>1, <2>1 DEF WriteContent, At, IInv, PlanInv
    <3>2. json' = [json EXCEPT ![job[r].id] = Entered(job[r])]
      BY <2>1, <3>1 DEF WriteContent, Entered
    <3> QED
      BY <1>1, <2>1, <3>1, <3>2 DEF IInv, TypeOK, Entry
  <2>2. ASSUME NEW r \in Requests, WriteRoadmap(r), NEW s \in Sections,
               NEW l \in ToSet(roadmap'[s]) \ ToSet(roadmap[s])
        PROVE  l.id = i => l.rev = manifest[i]
    <3>1. Entry(r) = Entered(job[r]) /\ roadmap' = RoadmapAfter(job[r])
      BY <1>1, <2>2 DEF WriteRoadmap, At, IInv, PlanInv
    <3>2. /\ roadmap' \in Roads /\ roadmap \in Roads
          /\ Brings(roadmap, roadmap', job[r].id, Entered(job[r]))
      BY <1>1, <3>1, JobTypes, RoadmapChanges DEF IInv, TypeOK
    <3>3. PICK k \in DOMAIN roadmap'[s] : l = roadmap'[s][k]
      BY <2>2 DEF ToSet
    <3>4. /\ DOMAIN roadmap'[s] = 1 .. Len(roadmap'[s])
          /\ DOMAIN roadmap[s] = 1 .. Len(roadmap[s])
      BY <3>2, LenProperties DEF Roads
    <3>5. ~ \E n \in 1 .. Len(roadmap[s]) : roadmap[s][n] = roadmap'[s][k]
      BY <2>2, <3>3, <3>4 DEF ToSet
    <3>6. l = [id |-> job[r].id, rev |-> Entered(job[r])]
      BY <3>2, <3>3, <3>4, <3>5 DEF Brings
    <3> QED
      BY <3>1, <3>6 DEF Entry
  <2>3. json' = json \/ \E r \in Requests : WriteContent(r)
    BY <1>1, Untouched
  <2>4. roadmap' = roadmap \/ \E r \in Requests : WriteRoadmap(r)
    BY <1>1, Untouched
  <2> QED
    BY <2>1, <2>2, <2>3, <2>4
<1> QED
  BY <1>1, Invariance, PTL DEF Spec, FilesFollowManifest

-----------------------------------------------------------------------------
\* What the history remembers: it follows the ticket of the request in the critical section,
\* and holds what that request's gate saw.
WasInv ==
  \A r \in Requests : pc[r] \in Critical =>
    /\ tracked[job[r].id] \in was
    /\ pc[r] \in {"render", "manifest"} /\ ~job[r].dry /\ job[r].op # "create" =>
         was \cap Allowed(job[r].op) # {}

LEMMA WasStep ==
  ASSUME IInv, WasInv, [Next]_vars
  PROVE  WasInv'
<1> USE DEF IInv
<1>1. ASSUME NEW r \in Requests, \A q \in Requests \ {r} : pc'[q] = pc[q] /\ job'[q] = job[q],
             UNCHANGED tracked, was' = was \/ \A q \in Requests \ {r} : pc[q] \notin Critical,
             pc'[r] \notin Critical
      PROVE  WasInv'
  BY <1>1 DEF WasInv
<1>2. ASSUME NEW r \in Requests, NEW stage \in Critical, Goto(r, stage), pc[r] \in Critical,
             UNCHANGED <<tracked, job, was>>,
             stage \in {"render", "manifest"} =>
               \/ pc[r] \in {"render", "manifest"}
               \/ job[r].dry \/ job[r].op = "create"
               \/ was \cap Allowed(job[r].op) # {}
      PROVE  WasInv'
  <2>1. pc'[r] = stage /\ \A q \in Requests \ {r} : pc'[q] = pc[q]
    BY <1>2 DEF Goto, TypeOK
  <2> QED
    BY <1>2, <2>1 DEF WasInv
<1>3. ASSUME NEW r \in Requests, NEW a \in Answers, Finish(r, a), pc[r] \in Critical,
             UNCHANGED <<tracked, job>>
      PROVE  WasInv'
  <2>1. pc'[r] = "done" /\ \A q \in Requests \ {r} : pc'[q] = pc[q] /\ pc[q] \notin Critical
    BY <1>3, Alone DEF Finish, Goto, TypeOK
  <2> QED
    BY <1>1, <1>3, <2>1 DEF Critical
<1>4. ASSUME NEW r \in Requests, NEW j \in Jobs, Arrive(r, j)
      PROVE  WasInv'
  <2>1. pc'[r] = "waiting" /\ UNCHANGED <<tracked, was>>
        /\ \A q \in Requests \ {r} : pc'[q] = pc[q] /\ job'[q] = job[q]
    BY <1>4 DEF Arrive, Goto, TypeOK
  <2> QED
    BY <1>1, <2>1 DEF Critical
<1>5. ASSUME NEW r \in Requests, Acquire(r)
      PROVE  WasInv'
  <2>1. /\ pc'[r] = "check" /\ \A q \in Requests \ {r} : pc'[q] = pc[q]
        /\ holder = Nobody /\ was' = {tracked[job[r].id]} /\ UNCHANGED <<tracked, job>>
    BY <1>5 DEF Acquire, At, Goto, TypeOK
  <2>2. \A q \in Requests \ {r} : pc'[q] \notin Critical
    BY <2>1, TicketAssumption DEF LockInv
  <2> QED
    BY <2>1, <2>2 DEF WasInv
<1>6. ASSUME NEW r \in Requests, Check(r)
      PROVE  WasInv'
  BY <1>2, <1>3, <1>6 DEF Check, At, Critical, Answers
<1>7. ASSUME NEW r \in Requests, Gate(r)
      PROVE  WasInv'
  <2>1. pc[r] = "gate" /\ UNCHANGED <<tracked, job>> /\ tracked[job[r].id] \in was
    BY <1>7 DEF Gate, At, WasInv, Critical
  <2> QED
    BY <1>2, <1>3, <1>7, <2>1 DEF Gate, Critical, Answers
<1>8. ASSUME NEW r \in Requests, Render(r) \/ RenderBlind(r)
      PROVE  WasInv'
  BY <1>2, <1>3, <1>8 DEF Render, RenderBlind, At, Critical, Answers
<1>9. ASSUME NEW r \in Requests, WriteManifest(r) \/ WriteContent(r) \/ WriteRoadmap(r)
      PROVE  WasInv'
  BY <1>2, <1>9 DEF WriteManifest, WriteContent, WriteRoadmap, Whole, At, Critical
<1>10. ASSUME NEW r \in Requests, Reread(r) \/ Fail(r)
       PROVE  WasInv'
  <2>1. pc[r] \in Critical
    BY <1>10 DEF Reread, Fail, At, Critical, TypeOK, Stages
  <2> QED
    BY <1>3, <1>10, <2>1 DEF Reread, Fail, At, Answers
<1>11. ASSUME NEW r \in Requests, Respond(r)
       PROVE  WasInv'
  <2>1. pc'[r] = "idle" /\ UNCHANGED <<tracked, job, was>> /\ \A q \in Requests \ {r} : pc'[q] = pc[q]
    BY <1>11 DEF Respond, At, Goto, TypeOK
  <2> QED
    BY <1>1, <2>1 DEF Critical
<1>12. CASE Crash
  BY <1>12 DEF Crash, WasInv, Critical
<1>13. CASE FactoryMoves
  <2>1. PICK i \in Id, s \in RunState :
          /\ tracked' = [tracked EXCEPT ![i] = s]
          /\ was' = IF holder # Nobody /\ job[holder].id = i THEN was \cup {s} ELSE was
    BY <1>13 DEF FactoryMoves
  <2>2. UNCHANGED <<pc, job>> /\ was \subseteq was'
    BY <1>13, <2>1 DEF FactoryMoves
  <2>3. ASSUME NEW r \in Requests, pc[r] \in Critical
        PROVE  tracked'[job[r].id] \in was'
    <3>1. holder = r /\ r # Nobody /\ tracked[job[r].id] \in was
      BY <2>3, TicketAssumption DEF LockInv, WasInv
    <3>2. CASE job[r].id = i
      BY <2>1, <3>1, <3>2 DEF TypeOK
    <3>3. CASE job[r].id # i
      BY <2>1, <2>2, <3>1, <3>3, JobTypes DEF TypeOK
    <3> QED
      BY <3>2, <3>3
  <2> QED
    BY <2>2, <2>3 DEF WasInv
<1>14. CASE UNCHANGED vars
  BY <1>14 DEF vars, WasInv
<1> QED
  BY <1>4, <1>5, <1>6, <1>7, <1>8, <1>9, <1>10, <1>11, <1>12, <1>13, <1>14 DEF Next, Handle

\* An edit or a delete lands only on a ticket whose run state allowed it at some instant
\* since its request took the lock, however the factory moves its tickets meanwhile.
THEOREM WrittenWereMutable == Spec => WritesWereMutable
<1> DEFINE Seen == \A i \in Id : manifest'[i] # manifest[i] /\ manifest[i] # NoEntry =>
             was \cap Allowed(IF manifest'[i] = NoEntry THEN "delete" ELSE "edit") # {}
<1>1. Init => WasInv
  BY DEF Init, WasInv, Critical
<1>2. IInv /\ WasInv /\ [Next]_vars => WasInv'
  BY WasStep
<1>3. ASSUME IInv, WasInv, [Next]_vars
      PROVE  Seen
  <2> SUFFICES ASSUME NEW i \in Id, manifest'[i] # manifest[i], manifest[i] # NoEntry
               PROVE  was \cap Allowed(IF manifest'[i] = NoEntry THEN "delete" ELSE "edit") # {}
    OBVIOUS
  <2>1. PICK r \in Requests : WriteManifest(r)
    BY <1>3, Untouched
  <2>2. /\ pc[r] = "manifest" /\ ~job[r].dry
        /\ (job[r].op = "create") = (Entry(r) = NoEntry)
        /\ manifest' = [manifest EXCEPT ![job[r].id] = Entered(job[r])]
    BY <1>3, <2>1 DEF WriteManifest, At, IInv, PlanInv
  <2>3. i = job[r].id /\ manifest'[i] = Entered(job[r])
    BY <1>3, <2>2 DEF IInv, TypeOK
  <2>4. job[r].op # "create"
    BY <2>2, <2>3 DEF Entry
  <2>5. was \cap Allowed(job[r].op) # {}
    BY <1>3, <2>2, <2>4 DEF WasInv, Critical
  <2>6. Entered(job[r]) = NoEntry <=> job[r].op = "delete"
    BY <1>3, JobTypes DEF IInv
  <2>7. job[r].op = IF manifest'[i] = NoEntry THEN "delete" ELSE "edit"
    BY <1>3, <2>3, <2>4, <2>6, JobTypes DEF IInv
  <2> QED
    BY <2>5, <2>7
<1> QED
  BY <1>1, <1>2, <1>3, Invariance, PTL DEF Spec, WritesWereMutable

-----------------------------------------------------------------------------
\* The refinement: where a request's fate is decided.
FateAt(at, a) ==
  CASE at = "idle" -> "idle"
    [] at \in {"waiting", "check", "gate", "render", "manifest"} -> "asked"
    [] at \in {"content", "roadmap", "reread"} -> "took"
    [] OTHER -> IF a \in {"applied", "late_error"} THEN "took"
                ELSE IF a = "previewed" THEN "declined" ELSE a

LEMMA FateIs ==
  /\ Fate = [r \in Requests |-> FateAt(pc[r], answer[r])]
  /\ Fate' = [r \in Requests |-> FateAt(pc'[r], answer'[r])]
BY DEF Fate, FateAt

LEMMA FateAtIs ==
  ASSUME NEW at, NEW a
  PROVE  /\ at = "idle" => FateAt(at, a) = "idle"
         /\ at \in {"waiting", "check", "gate", "render", "manifest"} => FateAt(at, a) = "asked"
         /\ at \in {"content", "roadmap", "reread"} => FateAt(at, a) = "took"
         /\ at = "done" /\ a \in {"applied", "late_error"} => FateAt(at, a) = "took"
         /\ at = "done" /\ a \in {"previewed", "declined"} => FateAt(at, a) = "declined"
         /\ at = "done" /\ a \in {"exists", "missing"} => FateAt(at, a) = a
BY DEF FateAt

\* Only r's fate can change.
LEMMA OneFate ==
  ASSUME NEW r \in Requests,
         \A q \in Requests \ {r} : pc'[q] = pc[q] /\ answer'[q] = answer[q]
  PROVE  Fate' = [Fate EXCEPT ![r] = FateAt(pc'[r], answer'[r])]
BY FateIs

LEMMA SameFate ==
  ASSUME NEW r \in Requests,
         \A q \in Requests \ {r} : pc'[q] = pc[q] /\ answer'[q] = answer[q],
         FateAt(pc'[r], answer'[r]) = FateAt(pc[r], answer[r])
  PROVE  Fate' = Fate
BY FateIs

\* A request that goes on without an answer.
LEMMA GoesOn ==
  ASSUME TypeOK, NEW r \in Requests, NEW stage \in Stages, Goto(r, stage), UNCHANGED answer
  PROVE  /\ pc'[r] = stage
         /\ \A q \in Requests \ {r} : pc'[q] = pc[q] /\ answer'[q] = answer[q]
BY DEF Goto, TypeOK

\* A request that is answered.
LEMMA IsAnswered ==
  ASSUME TypeOK, NEW r \in Requests, NEW a \in Answers, Finish(r, a)
  PROVE  /\ pc'[r] = "done" /\ answer'[r] = a
         /\ \A q \in Requests \ {r} : pc'[q] = pc[q] /\ answer'[q] = answer[q]
BY DEF Finish, Goto, TypeOK

\* A request that has not taken effect and is refused.
LEMMA Refused ==
  ASSUME TypeOK, NEW r \in Requests, NEW a \in {"exists", "missing", "declined", "previewed"},
         pc[r] \in {"check", "gate", "render", "manifest"}, Finish(r, a),
         UNCHANGED <<manifest, job>>,
         a = "exists" => job[r].op = "create" /\ Entry(r) # NoEntry,
         a = "missing" => job[r].op # "create" /\ Entry(r) = NoEntry
  PROVE  Atomic!Refuse(r)
<1>1. Fate[r] = "asked"
  BY FateIs, FateAtIs
<1>2. pc'[r] = "done" /\ answer'[r] = a
      /\ \A q \in Requests \ {r} : pc'[q] = pc[q] /\ answer'[q] = answer[q]
  BY IsAnswered DEF Answers
<1>3. Fate' = [Fate EXCEPT ![r] = IF a = "previewed" THEN "declined" ELSE a]
  BY <1>2, OneFate, FateAtIs
<1> QED
  BY <1>1, <1>3 DEF Atomic!Refuse, Entry

LEMMA RefinementStep ==
  ASSUME IInv, [Next]_vars
  PROVE  [Atomic!Next]_(Atomic!avars)
<1> USE DEF IInv
<1>1. ASSUME NEW r \in Requests, NEW j \in Jobs, Arrive(r, j)
      PROVE  Atomic!Next
  <2>1. /\ pc[r] = "idle" /\ pc'[r] = "waiting" /\ UNCHANGED <<manifest, answer>>
        /\ \A q \in Requests \ {r} : pc'[q] = pc[q] /\ answer'[q] = answer[q]
    BY <1>1, GoesOn DEF Arrive, Stages, disk
  <2>2. Fate[r] = "idle" /\ Fate' = [Fate EXCEPT ![r] = "asked"]
    BY <2>1, FateIs, FateAtIs, OneFate
  <2>3. Atomic!Ask(r, j)
    BY <1>1, <2>1, <2>2 DEF Atomic!Ask, Arrive
  <2> QED
    BY <2>3 DEF Atomic!Next
<1>2. ASSUME NEW r \in Requests, NEW stage \in Stages, Goto(r, stage),
             UNCHANGED <<answer, manifest, job>>,
             \/ /\ pc[r] \in {"waiting", "check", "gate", "render"}
                /\ stage \in {"check", "gate", "render", "manifest"}
             \/ pc[r] \in {"content", "roadmap"} /\ stage \in {"roadmap", "reread"}
      PROVE  UNCHANGED Atomic!avars
  <2>1. /\ pc'[r] = stage
        /\ \A q \in Requests \ {r} : pc'[q] = pc[q] /\ answer'[q] = answer[q]
    BY <1>2, GoesOn
  <2>2. FateAt(pc'[r], answer'[r]) = FateAt(pc[r], answer[r])
    BY <1>2, <2>1, FateAtIs
  <2>3. Fate' = Fate
    BY <2>1, <2>2, SameFate
  <2> QED
    BY <1>2, <2>3 DEF Atomic!avars
<1>3. ASSUME NEW r \in Requests, NEW a \in {"applied", "late_error"}, Finish(r, a),
             pc[r] \in {"content", "roadmap", "reread"}, UNCHANGED <<manifest, job>>
      PROVE  UNCHANGED Atomic!avars
  <2>1. /\ pc'[r] = "done" /\ answer'[r] = a
        /\ \A q \in Requests \ {r} : pc'[q] = pc[q] /\ answer'[q] = answer[q]
    BY <1>3, IsAnswered DEF Answers
  <2>2. FateAt(pc'[r], answer'[r]) = FateAt(pc[r], answer[r])
    BY <1>3, <2>1, FateAtIs
  <2>3. Fate' = Fate
    BY <2>1, <2>2, SameFate
  <2> QED
    BY <1>3, <2>3 DEF Atomic!avars
<1>4. ASSUME NEW r \in Requests, Acquire(r)
      PROVE  UNCHANGED Atomic!avars
  BY <1>2, <1>4 DEF Acquire, At, Stages, disk
<1>5. ASSUME NEW r \in Requests, Check(r)
      PROVE  [Atomic!Next]_(Atomic!avars)
  <2>1. pc[r] = "check" /\ UNCHANGED <<manifest, job>>
    BY <1>5 DEF Check, At, disk
  <2>2. CASE \E stage \in {"render", "gate"} : Goto(r, stage) /\ UNCHANGED answer
    BY <1>2, <2>1, <2>2 DEF Stages
  <2>3. CASE \/ job[r].op = "create" /\ Entry(r) # NoEntry /\ Finish(r, "exists")
             \/ job[r].op # "create" /\ Entry(r) = NoEntry /\ Finish(r, "missing")
    <3>1. Atomic!Refuse(r)
      BY <2>1, <2>3, Refused
    <3> QED
      BY <3>1 DEF Atomic!Next
  <2> QED
    BY <1>5, <2>2, <2>3 DEF Check
<1>6. ASSUME NEW r \in Requests, Gate(r)
      PROVE  [Atomic!Next]_(Atomic!avars)
  <2>1. pc[r] = "gate" /\ UNCHANGED <<manifest, job>>
    BY <1>6 DEF Gate, At, disk
  <2>2. CASE Goto(r, "render") /\ UNCHANGED answer
    BY <1>2, <2>1, <2>2 DEF Stages
  <2>3. CASE Finish(r, "declined")
    <3>1. Atomic!Refuse(r)
      BY <2>1, <2>3, Refused
    <3> QED
      BY <3>1 DEF Atomic!Next
  <2> QED
    BY <1>6, <2>2, <2>3 DEF Gate
<1>7. ASSUME NEW r \in Requests, Render(r)
      PROVE  [Atomic!Next]_(Atomic!avars)
  <2>1. pc[r] = "render" /\ UNCHANGED <<manifest, job>>
    BY <1>7 DEF Render, At, disk
  <2>2. CASE Goto(r, "manifest") /\ UNCHANGED answer
    BY <1>2, <2>1, <2>2 DEF Stages
  <2>3. CASE \/ job[r].op = "create" /\ Entry(r) # NoEntry /\ Finish(r, "exists")
             \/ job[r].op # "create" /\ Entry(r) = NoEntry /\ Finish(r, "missing")
             \/ Finish(r, "declined")
             \/ Finish(r, "previewed")
    <3>1. Atomic!Refuse(r)
      BY <2>1, <2>3, Refused
    <3> QED
      BY <3>1 DEF Atomic!Next
  <2> QED
    BY <1>7, <2>2, <2>3 DEF Render
<1>8. ASSUME NEW r \in Requests, WriteManifest(r)
      PROVE  Atomic!Next
  <2>1. /\ pc[r] = "manifest" /\ manifest' = plan[r].manifest /\ UNCHANGED <<job, answer>>
        /\ pc'[r] = "content"
        /\ \A q \in Requests \ {r} : pc'[q] = pc[q] /\ answer'[q] = answer[q]
    BY <1>8, GoesOn DEF WriteManifest, At, Stages
  <2>2. Fate[r] = "asked" /\ Fate' = [Fate EXCEPT ![r] = "took"]
    BY <2>1, FateIs, FateAtIs, OneFate
  <2>3. /\ ~job[r].dry /\ (job[r].op = "create") = (manifest[job[r].id] = NoEntry)
        /\ manifest' = [manifest EXCEPT ![job[r].id] =
                          IF job[r].op = "delete" THEN NoEntry ELSE job[r].rev]
    BY <2>1 DEF PlanInv, Entry, Entered
  <2>4. Atomic!Take(r)
    BY <2>1, <2>2, <2>3 DEF Atomic!Take, Atomic!Applies, Atomic!Outcome
  <2> QED
    BY <2>4 DEF Atomic!Next
<1>9. ASSUME NEW r \in Requests, WriteContent(r)
      PROVE  UNCHANGED Atomic!avars
  BY <1>2, <1>9 DEF WriteContent, Whole, At, Stages
<1>10. ASSUME NEW r \in Requests, WriteRoadmap(r)
       PROVE  UNCHANGED Atomic!avars
  BY <1>2, <1>10 DEF WriteRoadmap, Whole, At, Stages
<1>11. ASSUME NEW r \in Requests, Reread(r)
       PROVE  UNCHANGED Atomic!avars
  BY <1>3, <1>11 DEF Reread, At, disk
<1>12. ASSUME NEW r \in Requests, Respond(r)
       PROVE  Atomic!Next
  <2>1. /\ pc[r] = "done" /\ pc'[r] = "idle" /\ UNCHANGED <<manifest, job>>
        /\ \A q \in Requests \ {r} : pc'[q] = pc[q] /\ answer'[q] = answer[q]
        /\ answer[r] \in Answers \ {"none"}
    BY <1>12 DEF Respond, At, Goto, TypeOK, AnswerInv, disk
  <2>2. Fate[r] \notin {"idle", "asked"} /\ Fate' = [Fate EXCEPT ![r] = "idle"]
    BY <2>1, FateIs, FateAtIs, OneFate DEF Answers
  <2>3. Atomic!Answered(r)
    BY <2>1, <2>2 DEF Atomic!Answered
  <2> QED
    BY <2>3 DEF Atomic!Next
<1>13. ASSUME NEW r \in Requests, Fail(r)
       PROVE  [Atomic!Next]_(Atomic!avars)
  <2>1. UNCHANGED <<manifest, job>>
    BY <1>13 DEF Fail, disk
  <2>2. CASE pc[r] \in {"content", "roadmap", "reread"}
    BY <1>3, <1>13, <2>1, <2>2 DEF Fail
  <2>3. CASE pc[r] \in {"check", "gate", "render", "manifest"}
    <3>1. Atomic!Refuse(r)
      BY <1>13, <2>1, <2>3, Refused DEF Fail
    <3> QED
      BY <3>1 DEF Atomic!Next
  <2> QED
    BY <1>13, <2>2, <2>3 DEF Fail, TypeOK, Stages
<1>14. CASE Crash
  <2>1. Fate' = [r \in Requests |-> "idle"] /\ UNCHANGED <<manifest, job>>
    BY <1>14, FateIs, FateAtIs DEF Crash, disk
  <2> QED
    BY <2>1 DEF Atomic!Next, Atomic!Lose
<1>15. CASE FactoryMoves \/ UNCHANGED vars
  BY <1>15, FateIs DEF FactoryMoves, vars, disk, Atomic!avars
<1>16. ASSUME NEW r \in Requests, RenderBlind(r)
       PROVE  UNCHANGED Atomic!avars
  BY <1>2, <1>16 DEF RenderBlind, Stages, disk
<1> QED
  BY <1>1, <1>4, <1>5, <1>6, <1>7, <1>8, <1>9, <1>10, <1>11, <1>12, <1>13, <1>14, <1>15,
     <1>16 DEF Next, Handle

\* The write path implements its abstract specification: every request takes
\* effect on tickets.json at one instant, all of it or nothing, and an answer
\* that a ticket exists or is missing was true when it was decided.
THEOREM Refinement == Spec => ImplementsAtomicTickets
<1>1. Init => Atomic!Init
  BY FateIs, FateAtIs DEF Init, Atomic!Init
<1>2. IInv /\ [Next]_vars => [Atomic!Next]_(Atomic!avars)
  BY RefinementStep
<1> QED
  BY <1>1, <1>2, Invariance, PTL DEF Spec, ImplementsAtomicTickets, Atomic!Spec
=============================================================================
