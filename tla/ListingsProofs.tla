----------------------------- MODULE ListingsProofs -----------------------------
(* What holds of Listings for any users, filters, limits, times and rows. *)
EXTENDS Listings, FiniteSetTheorems, SequenceTheorems, TLAPS

-------------------------------------------------------------------------------
(* The inductive invariant.                                                *)

\* The rows a client asks for, as a set.
Found(f) == {i \in Id : Wanted(rows[i], f)}

\* What Begin has checked of a filter.
Asks(f) ==
    /\ list \in {"mine", "history"} => f.owner # Unset
    /\ list # "exchanges" => f.status = Unset

\* Where a walk has a page, a limit and a filter.
WalkShape ==
    /\ at \in {"idle", "list", "end"} => page = <<>>
    /\ at # "idle" => limit > 0 /\ Asks(filter)

\* Only rows of users leave, by their status; a row of the beginning is still
\* found unless it left.
LeftRows ==
    /\ left # {} => list = "users"
    /\ \A i \in left : rows[i].status = "admin"
    /\ first \subseteq Found(filter) \cup left

\* The rows behind the page are not more than those found and those that left.
RowsCounted ==
    page # <<>> =>
        /\ at = "count" => offset + Len(page) <= Cardinality(Found(filter)) + Cardinality(left)
        /\ at = "answer" /\ list # "history" => offset + Len(page) <= total + Cardinality(left)

\* The rows whose place in the order no other row shares.
Untied == {i \in first : \A j \in Id : rows[j].created = rows[i].created => j = i}

Given == seen \cup ToSet(page)

Behind == offset + Len(page)

\* The rows that come before i, and how many they are.
Before(i) == {j \in Found(filter) : rows[j].created > rows[i].created}
Place(i) == Cardinality(Before(i))

\* The rows of the beginning the client has not been given, and those among
\* them the walk has already gone past.
Missed == {i \in Untied : i \notin Given \cup left}
Overlooked == {i \in Missed : Place(i) < Behind}

FewOverlooked ==
    /\ Cardinality(Overlooked) <= Cardinality(left)
    /\ at \in {"count", "answer", "end"} /\ page = <<>> => Cardinality(Missed) <= Cardinality(left)

ListInv == TypeOK /\ WalkShape /\ LeftRows /\ FilterHonoured /\ RowsCounted /\ FewOverlooked

-------------------------------------------------------------------------------
(* The query builder.                                                      *)

Column == {"email", "owner", "status"}
Condition == [column : Column, place : Nat]
Argument == Owner \cup Status \cup {Unset} \cup Int

\* Every condition has the number of its own argument, and the counter is the
\* next one.
WellFormed(qb) ==
    /\ qb.where \in Seq(Condition) /\ qb.args \in Seq(Argument)
    /\ Len(qb.args) = Len(qb.where) /\ qb.counter = Len(qb.where) + 1
    /\ \A k \in DOMAIN qb.where : qb.where[k].place = k

\* The empty builder asks for nothing and finds every row.
LEMMA NewBuilderFinds == WellFormed(NewBuilder) /\ Matching(NewBuilder) = Id
<1>1. WellFormed(NewBuilder) BY EmptySeq DEF WellFormed, NewBuilder
<1>2. DOMAIN NewBuilder.where = {} BY DEF NewBuilder
<1> QED BY <1>1, <1>2 DEF Matching

\* AddWhere (query_builder.go:20) keeps the numbers right, and what is found
\* are the rows found before for which the new condition holds.
LEMMA AddWhereFinds ==
    ASSUME NEW qb, WellFormed(qb), NEW c \in Column, NEW a \in Argument
    PROVE  /\ WellFormed(AddWhere(qb, c, a))
           /\ \A i : i \in Matching(AddWhere(qb, c, a))
                         <=> i \in Matching(qb) /\ Holds(rows[i], c, a)
<1> DEFINE new == AddWhere(qb, c, a)
           n == Len(qb.where)
           cond == [column |-> c, place |-> qb.counter]
<1>1. n \in Nat /\ DOMAIN qb.where = 1 .. n /\ DOMAIN qb.args = 1 .. n
  BY LenProperties DEF WellFormed
<1>2. cond \in Condition BY <1>1 DEF WellFormed, Condition
<1>3. /\ new.where = Append(qb.where, cond)
      /\ new.args = Append(qb.args, a)
      /\ new.counter = qb.counter + 1
  BY DEF AddWhere
<1>4. /\ new.where \in Seq(Condition) /\ Len(new.where) = n + 1
      /\ \A k \in 1 .. n : new.where[k] = qb.where[k]
      /\ new.where[n + 1] = cond
  BY <1>2, <1>3, AppendProperties DEF WellFormed
<1>5. /\ new.args \in Seq(Argument) /\ Len(new.args) = n + 1
      /\ \A k \in 1 .. n : new.args[k] = qb.args[k]
      /\ new.args[n + 1] = a
  BY <1>3, AppendProperties DEF WellFormed
<1>6. DOMAIN new.where = 1 .. n + 1 BY <1>1, <1>4, LenProperties
<1>7. \A k \in 1 .. n : qb.where[k].place = k BY <1>1 DEF WellFormed
<1>8. cond.place = n + 1 /\ cond.column = c BY DEF WellFormed
<1>9. ASSUME NEW k \in 1 .. n + 1 PROVE new.where[k].place = k
  <2>1. k \in 1 .. n \/ k = n + 1 BY <1>1
  <2>2. CASE k \in 1 .. n BY <1>4, <1>7, <2>2
  <2>3. CASE k = n + 1 BY <1>4, <1>8, <2>3
  <2> HIDE DEF new, n
  <2> QED BY <2>1, <2>2, <2>3
<1>10. WellFormed(new) BY <1>1, <1>3, <1>4, <1>5, <1>6, <1>9 DEF WellFormed
<1>11. ASSUME NEW i \in Id
       PROVE  (\A k \in DOMAIN new.where :
                   Holds(rows[i], new.where[k].column, new.args[new.where[k].place]))
              <=> (\A k \in DOMAIN qb.where :
                       Holds(rows[i], qb.where[k].column, qb.args[qb.where[k].place]))
                  /\ Holds(rows[i], c, a)
  <2>1. \A k \in 1 .. n : /\ new.where[k].column = qb.where[k].column
                          /\ new.args[new.where[k].place] = qb.args[qb.where[k].place]
    BY <1>4, <1>5, <1>7
  <2>2. new.where[n + 1].column = c /\ new.args[new.where[n + 1].place] = a
    BY <1>4, <1>5, <1>8
  <2>3. \A k \in 1 .. n + 1 : k \in 1 .. n \/ k = n + 1 BY <1>1
  <2>4. 1 .. n \subseteq 1 .. n + 1 /\ n + 1 \in 1 .. n + 1 BY <1>1
  <2> HIDE DEF new, n, cond
  <2> QED BY <1>1, <1>6, <2>1, <2>2, <2>3, <2>4, Zenon
<1> QED BY <1>10, <1>11 DEF Matching

LEMMA AddWhereIfSetFinds ==
    ASSUME NEW qb, WellFormed(qb), NEW c \in Column, NEW a \in Argument
    PROVE  /\ WellFormed(AddWhereIfSet(qb, c, a))
           /\ \A i : i \in Matching(AddWhereIfSet(qb, c, a))
                         <=> i \in Matching(qb) /\ (a = Unset \/ Holds(rows[i], c, a))
<1>1. CASE a = Unset BY <1>1 DEF AddWhereIfSet, Matching
<1>2. CASE a # Unset BY <1>2, AddWhereFinds DEF AddWhereIfSet
<1> QED BY <1>1, <1>2

\* LIMIT and OFFSET come with their own arguments and change no condition's.
LEMMA PagedFinds ==
    ASSUME NEW qb, WellFormed(qb), NEW l \in Nat, NEW o \in Nat
    PROVE  LET q == Paged(qb, l, o)
           IN  Matching(q) = Matching(qb) /\ q.args[q.limit] = l /\ q.args[q.offset] = o
<1> DEFINE q == Paged(qb, l, o)
           n == Len(qb.where)
<1>1. n \in Nat /\ DOMAIN qb.where = 1 .. n /\ Len(qb.args) = n /\ qb.counter = n + 1
  BY LenProperties DEF WellFormed
<1>2. /\ q.where = qb.where /\ q.args = qb.args \o <<l, o>>
      /\ q.limit = n + 1 /\ q.offset = n + 2
  BY <1>1 DEF Paged
<1>3. /\ <<l, o>> \in Seq(Argument) /\ Len(<<l, o>>) = 2
      /\ <<l, o>>[1] = l /\ <<l, o>>[2] = o
  BY DEF Argument
<1>4. \A k \in 1 .. n + 2 : q.args[k] = IF k <= n THEN qb.args[k] ELSE <<l, o>>[k - n]
  <2>1. qb.args \in Seq(Argument) BY DEF WellFormed
  <2> HIDE DEF q, n
  <2>2. \A k \in 1 .. Len(qb.args) + Len(<<l, o>>) :
            (qb.args \o <<l, o>>)[k] = IF k <= Len(qb.args) THEN qb.args[k]
                                       ELSE <<l, o>>[k - Len(qb.args)]
    BY <1>3, <2>1, ConcatProperties
  <2> QED BY <1>1, <1>2, <1>3, <2>2
<1>5. q.args[n + 1] = l /\ q.args[n + 2] = o
  <2>1. n + 1 \in 1 .. n + 2 /\ n + 2 \in 1 .. n + 2 BY <1>1
  <2>2. ~(n + 1 <= n) /\ ~(n + 2 <= n) /\ (n + 1) - n = 1 /\ (n + 2) - n = 2 BY <1>1
  <2> HIDE DEF q, n
  <2> QED BY <1>3, <1>4, <2>1, <2>2
<1>6. \A k \in 1 .. n : q.args[k] = qb.args[k] BY <1>1, <1>4
<1>7. \A k \in DOMAIN qb.where : q.args[q.where[k].place] = qb.args[qb.where[k].place]
  BY <1>1, <1>2, <1>6 DEF WellFormed
<1>8. Matching(q) = Matching(qb) BY <1>2, <1>7 DEF Matching
<1> QED BY <1>2, <1>5, <1>8

\* The filters of each list find the rows that were asked for.
LEMMA FilteredFinds ==
    ASSUME TypeOK, NEW f \in Filter, Asks(f)
    PROVE  WellFormed(Filtered(f)) /\ Matching(Filtered(f)) = Found(f)
<1>1. /\ f.owner \in Argument /\ f.status \in Argument /\ "client" \in Argument
      /\ f.owner \in Owner \cup {Unset}
  BY ListAssumption DEF Filter, Argument
<1>2. CASE list = "users"
  <2> DEFINE one == AddWhere(NewBuilder, "status", "client")
  <2>1. /\ WellFormed(one)
        /\ \A i : i \in Matching(one) <=> i \in Id /\ Holds(rows[i], "status", "client")
    BY <1>1, NewBuilderFinds, AddWhereFinds DEF Column
  <2>2. Filtered(f) = AddWhereIfSet(one, "email", f.owner) BY <1>2 DEF Filtered
  <2> HIDE DEF one
  <2>3. /\ WellFormed(Filtered(f))
        /\ \A i : i \in Matching(Filtered(f))
                      <=> i \in Matching(one) /\ (f.owner = Unset \/ Holds(rows[i], "email", f.owner))
    BY <1>1, <2>1, <2>2, AddWhereIfSetFinds DEF Column
  <2> QED BY <1>2, <2>1, <2>3 DEF Found, Wanted, Holds
<1>3. CASE list = "exchanges"
  <2> DEFINE one == AddWhereIfSet(NewBuilder, "status", f.status)
  <2>1. /\ WellFormed(one)
        /\ \A i : i \in Matching(one)
                      <=> i \in Id /\ (f.status = Unset \/ Holds(rows[i], "status", f.status))
    BY <1>1, NewBuilderFinds, AddWhereIfSetFinds DEF Column
  <2>2. Filtered(f) = AddWhereIfSet(one, "owner", f.owner) BY <1>3 DEF Filtered
  <2> HIDE DEF one
  <2>3. /\ WellFormed(Filtered(f))
        /\ \A i : i \in Matching(Filtered(f))
                      <=> i \in Matching(one) /\ (f.owner = Unset \/ Holds(rows[i], "owner", f.owner))
    BY <1>1, <2>1, <2>2, AddWhereIfSetFinds DEF Column
  <2> QED BY <1>3, <2>1, <2>3 DEF Found, Wanted, Holds
<1>4. CASE list \in {"mine", "history"}
  <2>1. Filtered(f) = AddWhere(NewBuilder, "owner", f.owner) BY <1>4 DEF Filtered
  <2>2. /\ WellFormed(Filtered(f))
        /\ \A i : i \in Matching(Filtered(f)) <=> i \in Id /\ Holds(rows[i], "owner", f.owner)
    BY <1>1, <2>1, NewBuilderFinds, AddWhereFinds DEF Column
  <2>3. f.owner # Unset BY <1>4 DEF Asks
  <2> QED BY <1>4, <2>2, <2>3 DEF Found, Wanted, Holds
<1> QED BY <1>2, <1>3, <1>4 DEF TypeOK, List

\* List query and count query find the rows that were asked for, and the list
\* query's page is the one the handler chose.
LEMMA QueriesFind ==
    ASSUME TypeOK, NEW f \in Filter, Asks(f), NEW l \in Nat, NEW o \in Nat
    PROVE  /\ Matching(CountQuery(f)) = Found(f)
           /\ Matching(ListQuery(f, l, o)) = Found(f)
           /\ ListQuery(f, l, o).args[ListQuery(f, l, o).limit] = l
           /\ ListQuery(f, l, o).args[ListQuery(f, l, o).offset] = o
BY FilteredFinds, PagedFinds DEF CountQuery, ListQuery

-------------------------------------------------------------------------------
(* The order of the rows, and the page that is cut from it.                *)

\* The positions of the rows are finitely many.
LEMMA IdFinite ==
    ASSUME TypeOK
    PROVE  /\ Len(rows) \in Nat /\ Id = 1 .. Len(rows) /\ IsFiniteSet(Id)
           /\ \A S \in SUBSET Id : IsFiniteSet(S) /\ Cardinality(S) \in Nat
<1>1. Len(rows) \in Nat /\ Id = 1 .. Len(rows) BY LenProperties DEF TypeOK, Id
<1>2. IsFiniteSet(Id) BY <1>1, FS_Interval
<1>3. ASSUME NEW S \in SUBSET Id PROVE IsFiniteSet(S) /\ Cardinality(S) \in Nat
  BY <1>2, FS_Subset, FS_CardinalityType
<1> QED BY <1>1, <1>2, <1>3

\* A row as the table holds it.
LEMMA RowShape ==
    ASSUME TypeOK, NEW i \in Id
    PROVE  rows[i] \in Row /\ rows[i].created \in Nat /\ rows[i].owner \in Owner
<1>1. rows[i] \in Row BY ElementOfSeq, IdFinite DEF TypeOK
<1> QED BY <1>1, ListAssumption DEF Row

\* What the database returns has every row once, later ones first.
LEMMA OrderedHasAll ==
    ASSUME TypeOK, NEW M \in SUBSET Id, NEW s \in Ordered(M)
    PROVE  /\ Cardinality(M) \in Nat /\ s \in Seq(M) /\ Len(s) = Cardinality(M)
           /\ \A j, k \in 1 .. Len(s) : j # k => s[j] # s[k]
           /\ \A j, k \in 1 .. Len(s) : j < k => rows[s[j]].created >= rows[s[k]].created
           /\ \A i \in M : \E k \in 1 .. Len(s) : s[k] = i
<1> DEFINE n == Cardinality(M)
<1>1. n \in Nat /\ IsFiniteSet(M) BY IdFinite
<1>2. /\ s \in [1 .. n -> M]
      /\ \A j, k \in 1 .. n : j # k => s[j] # s[k]
  BY DEF Ordered, SetToSeqs
<1>3. s \in Seq(M) /\ Len(s) = n /\ DOMAIN s = 1 .. n BY <1>1, <1>2
<1>4. s \in Injection(1 .. n, M) BY <1>2 DEF Injection, IsInjective
<1>5. IsFiniteSet(1 .. n) /\ Cardinality(1 .. n) = n BY <1>1, FS_Interval
<1>6. s \in Surjection(1 .. n, M) BY <1>1, <1>4, <1>5, FS_Injection
<1>7. \A i \in M : \E k \in 1 .. n : s[k] = i BY <1>6 DEF Surjection
<1>8. \A j, k \in 1 .. n : j < k => rows[s[j]].created >= rows[s[k]].created
  BY <1>3 DEF Ordered
<1> QED BY <1>1, <1>2, <1>3, <1>7, <1>8

\* A row that shares its time with no other is in the order behind exactly
\* the rows that are later.
LEMMA OrderedPlace ==
    ASSUME TypeOK, NEW M \in SUBSET Id, NEW s \in Ordered(M), NEW i \in M,
           \A j \in Id : rows[j].created = rows[i].created => j = i
    PROVE  LET n == Cardinality({j \in M : rows[j].created > rows[i].created})
           IN  n \in Nat /\ n < Len(s) /\ s[n + 1] = i
<1> DEFINE B == {j \in M : rows[j].created > rows[i].created}
<1>1. PICK k \in 1 .. Len(s) : s[k] = i BY OrderedHasAll
<1>2. Len(s) \in Nat /\ k \in Nat /\ k - 1 \in Nat BY <1>1, OrderedHasAll
<1> DEFINE f == [m \in 1 .. k - 1 |-> s[m]]
<1>3. \A m \in 1 .. Len(s) : s[m] \in M /\ s[m] \in Id /\ rows[s[m]].created \in Nat
  BY OrderedHasAll, ElementOfSeq, RowShape
<1>4. \A m \in 1 .. k - 1 : m \in 1 .. Len(s) /\ m < k BY <1>1, <1>2
<1>5. \A m \in 1 .. k - 1 : s[m] \in B
  <2> SUFFICES ASSUME NEW m \in 1 .. k - 1 PROVE s[m] \in B OBVIOUS
  <2>1. m \in 1 .. Len(s) /\ m < k BY <1>4
  <2>2. rows[s[m]].created >= rows[i].created BY <1>1, <2>1, OrderedHasAll
  <2>3. s[m] # i BY <1>1, <1>2, <2>1, OrderedHasAll
  <2>4. rows[s[m]].created # rows[i].created BY <1>3, <2>1, <2>3
  <2>5. rows[s[m]].created \in Nat /\ rows[i].created \in Nat BY <1>1, <1>3, <2>1
  <2>6. rows[s[m]].created > rows[i].created BY <2>2, <2>4, <2>5
  <2> QED BY <1>3, <2>1, <2>6
<1>6. ASSUME NEW j \in B PROVE \E m \in 1 .. k - 1 : s[m] = j
  <2>1. PICK m \in 1 .. Len(s) : s[m] = j BY OrderedHasAll
  <2>2. rows[s[m]].created > rows[s[k]].created BY <1>1, <2>1
  <2>3. rows[s[m]].created \in Nat /\ rows[s[k]].created \in Nat BY <1>1, <1>3, <2>1
  <2>4. ~(k < m)
    <3> SUFFICES ASSUME k < m PROVE FALSE OBVIOUS
    <3>1. rows[s[k]].created >= rows[s[m]].created BY <1>1, <2>1, OrderedHasAll
    <3> QED BY <2>2, <2>3, <3>1
  <2>5. m # k BY <2>2, <2>3
  <2> QED BY <1>2, <2>1, <2>4, <2>5
<1>7. f \in [1 .. k - 1 -> B] BY <1>5
<1>8. \A x, y \in 1 .. k - 1 : f[x] = f[y] => x = y BY <1>4, OrderedHasAll
<1>9. \A j \in B : \E m \in 1 .. k - 1 : f[m] = j BY <1>6
<1> HIDE DEF f, B
<1>10. f \in Bijection(1 .. k - 1, B)
  <2>1. f \in Injection(1 .. k - 1, B) BY <1>7, <1>8 DEF Injection, IsInjective
  <2>2. f \in Surjection(1 .. k - 1, B) BY <1>7, <1>9 DEF Surjection
  <2> QED BY <2>1, <2>2 DEF Bijection
<1>11. ExistsBijection(1 .. k - 1, B) BY <1>10 DEF ExistsBijection
<1>12. Cardinality(B) = k - 1 BY <1>2, <1>11, FS_CountingElements
<1>13. Cardinality(B) \in Nat /\ Cardinality(B) < Len(s) /\ Cardinality(B) + 1 = k BY <1>2, <1>12
<1> QED BY <1>1, <1>13 DEF B

\* A page is a slice of the rows asked for, in their order.
LEMMA PageIsSlice ==
    ASSUME TypeOK, Asks(filter), limit > 0,
           NEW p \in Pages(ListQuery(filter, limit, offset))
    PROVE  \E s \in Ordered(Found(filter)) :
              /\ p \in Seq(Found(filter)) /\ Len(p) \in Nat /\ Len(p) <= limit
              /\ p # <<>> => offset + Len(p) <= Len(s)
              /\ p = <<>> => Len(s) <= offset
              /\ \A k \in Nat : offset < k /\ k <= offset + Len(p) => p[k - offset] = s[k]
<1> DEFINE M == Found(filter)
           q == ListQuery(filter, limit, offset)
           to(s) == IF offset + limit < Len(s) THEN offset + limit ELSE Len(s)
<1>1. offset \in Nat /\ limit \in Nat /\ filter \in Filter BY ListAssumption DEF TypeOK
<1>2. Matching(q) = M /\ q.args[q.limit] = limit /\ q.args[q.offset] = offset
  BY <1>1, QueriesFind
<1>3. PICK s \in Ordered(Matching(q)) :
           p = SubSeq(s, q.args[q.offset] + 1,
                      IF q.args[q.offset] + q.args[q.limit] < Len(s)
                      THEN q.args[q.offset] + q.args[q.limit] ELSE Len(s))
  BY Zenon DEF Pages
<1>4. s \in Ordered(M) /\ p = SubSeq(s, offset + 1, to(s)) BY <1>2, <1>3
<1>5. M \in SUBSET Id BY DEF Found
<1>6. s \in Seq(M) /\ Len(s) \in Nat BY <1>4, <1>5, OrderedHasAll
<1> DEFINE e == to(s)
<1>7. e \in Nat /\ e <= Len(s) /\ e <= offset + limit
      /\ (e # Len(s) => e = offset + limit)
  BY <1>1, <1>6
<1>8. \A k \in offset + 1 .. e : s[k] \in M BY <1>1, <1>6, <1>7, ElementOfSeq
<1> HIDE DEF e, M, q
<1>9. /\ p \in Seq(M)
      /\ Len(p) = IF offset + 1 <= e THEN e - (offset + 1) + 1 ELSE 0
      /\ \A k \in 1 .. e - (offset + 1) + 1 : p[k] = s[(offset + 1) + k - 1]
  BY <1>1, <1>4, <1>7, <1>8, SubSeqProperties DEF e
<1>10. Len(p) \in Nat /\ Len(p) <= limit BY <1>1, <1>7, <1>9
<1>11. p # <<>> => Len(p) # 0 BY <1>9, EmptySeq
<1>12. p = <<>> => Len(p) = 0 OBVIOUS
<1>13. p # <<>> => offset + Len(p) <= Len(s) BY <1>1, <1>6, <1>7, <1>9, <1>11
<1>14. p = <<>> => Len(s) <= offset BY <1>1, <1>6, <1>7, <1>9, <1>12
<1>15. ASSUME NEW k \in Nat, offset < k, k <= offset + Len(p) PROVE p[k - offset] = s[k]
  <2>1. k - offset \in 1 .. e - (offset + 1) + 1
    <3>1. Len(p) > 0 BY <1>1, <1>10, <1>15
    <3>2. Len(p) = e - offset BY <1>1, <1>7, <1>9, <3>1
    <3>3. k \in Nat /\ offset < k /\ k <= e BY <1>1, <1>7, <1>15, <3>2
    <3> QED BY <1>1, <1>7, <3>3
  <2>2. (offset + 1) + (k - offset) - 1 = k BY <1>1
  <2> QED BY <1>9, <2>1, <2>2
<1> QED BY <1>4, <1>9, <1>10, <1>13, <1>14, <1>15 DEF M

-------------------------------------------------------------------------------
(* Every step keeps the invariant: the table.                              *)

LEMMA InitListInv == Init => ListInv
<1> SUFFICES ASSUME Init PROVE ListInv OBVIOUS
<1>1. TypeOK BY EmptySeq, ListAssumption DEF Init, TypeOK, Filter, Id
<1>2. WalkShape /\ LeftRows /\ RowsCounted BY DEF Init, WalkShape, LeftRows, RowsCounted
<1>3. FilterHonoured BY DEF Init, FilterHonoured, ToSet
<1>4. Missed = {} BY DEF Init, Missed, Untied
<1>5. Overlooked = {} BY <1>4 DEF Overlooked
<1>6. FewOverlooked BY <1>4, <1>5, FS_EmptySet DEF Init, FewOverlooked
<1> QED BY <1>1, <1>2, <1>3, <1>6 DEF ListInv

\* The sets the counts are about are finite.
LEMMA WalkFinite ==
    ASSUME TypeOK
    PROVE  /\ IsFiniteSet(left) /\ Cardinality(left) \in Nat
           /\ IsFiniteSet(Missed) /\ Cardinality(Missed) \in Nat
           /\ IsFiniteSet(Overlooked) /\ Cardinality(Overlooked) \in Nat
           /\ \A f : IsFiniteSet(Found(f)) /\ Cardinality(Found(f)) \in Nat
           /\ \A i : IsFiniteSet(Before(i)) /\ Place(i) \in Nat
<1>1. left \in SUBSET Id /\ Missed \in SUBSET Id /\ Overlooked \in SUBSET Id
  BY DEF TypeOK, Missed, Overlooked, Untied
<1>2. \A f : Found(f) \in SUBSET Id BY DEF Found
<1>3. \A i : Before(i) \in SUBSET Id BY DEF Before, Found
<1> QED BY <1>1, <1>2, <1>3, IdFinite DEF Place

\* A new row comes after the others, which stay as they are.
LEMMA InsertKeepsRows ==
    ASSUME TypeOK, NEW o \in Owner, NEW t \in 1 .. MaxTime, Insert(o, t)
    PROVE  /\ rows' \in Seq(Row) /\ Id \subseteq Id' /\ IsFiniteSet(Id')
           /\ \A i \in Id : rows'[i] = rows[i]
           /\ \A f : Found(f) \subseteq Found(f)'
           /\ \A f : \A i \in Id : i \in Found(f)' => i \in Found(f)
<1> DEFINE r == [owner |-> o, created |-> t,
                 status |-> IF list = "users" THEN "client" ELSE "completed"]
<1>1. r \in Row BY ListAssumption DEF Row
<1>2. rows' = Append(rows, r) /\ rows \in Seq(Row) /\ list' = list BY DEF Insert, TypeOK
<1> HIDE DEF r
<1>3. /\ rows' \in Seq(Row) /\ Len(rows') = Len(rows) + 1
      /\ \A i \in 1 .. Len(rows) : rows'[i] = rows[i]
  BY <1>1, <1>2, AppendProperties
<1>4. Len(rows) \in Nat /\ Id = 1 .. Len(rows) BY IdFinite
<1>5. Id' = 1 .. Len(rows) + 1 BY <1>3, LenProperties DEF Id
<1>6. Id \subseteq Id' /\ IsFiniteSet(Id') BY <1>4, <1>5, FS_Interval
<1>7. \A f : \A i \in Id : Wanted(rows[i], f)' <=> Wanted(rows[i], f)
  BY <1>2, <1>3, <1>4 DEF Wanted
<1> QED BY <1>3, <1>4, <1>6, <1>7 DEF Found

LEMMA InsertListInv ==
    ASSUME ListInv, NEW o \in Owner, NEW t \in 1 .. MaxTime, Insert(o, t)
    PROVE  ListInv'
<1> USE DEF ListInv
<1>1. /\ at' = at /\ filter' = filter /\ limit' = limit /\ offset' = offset /\ page' = page
      /\ total' = total /\ seen' = seen /\ first' = first /\ left' = left /\ list' = list
  BY DEF Insert, walk
<1>2. /\ rows' \in Seq(Row) /\ Id \subseteq Id' /\ IsFiniteSet(Id')
      /\ \A i \in Id : rows'[i] = rows[i]
      /\ \A f : Found(f) \subseteq Found(f)'
      /\ \A f : \A i \in Id : i \in Found(f)' => i \in Found(f)
  BY InsertKeepsRows
<1>3. /\ first \subseteq Id /\ left \subseteq Id /\ seen \subseteq Id /\ page \in Seq(Id)
      /\ ToSet(page) \subseteq Id
  BY LenProperties, ElementOfSeq DEF TypeOK, ToSet
<1>4. TypeOK'
  <2>1. page' \in Seq(Id') BY <1>1, <1>2, <1>3, SeqMonotonic
  <2> QED BY <1>1, <1>2, <1>3, <2>1 DEF TypeOK
<1>5. WalkShape' BY <1>1 DEF WalkShape, Asks
<1>6. LeftRows' BY <1>1, <1>2, <1>3 DEF LeftRows
<1>7. FilterHonoured'
  <2>1. \A i \in Id : Wanted(rows[i], filter) => Wanted(rows[i], filter)'
    BY <1>1, <1>2 DEF Wanted
  <2> QED BY <1>1, <1>3, <2>1 DEF FilterHonoured
<1>8. RowsCounted'
  <2>1. Found(filter) \in SUBSET (Found(filter)') BY <1>1, <1>2
  <2>2. IsFiniteSet(Found(filter)') BY <1>2, FS_Subset DEF Found
  <2>3. Cardinality(Found(filter)) <= Cardinality(Found(filter)')
        /\ Cardinality(Found(filter)') \in Nat
    BY <2>1, <2>2, FS_Subset, FS_CardinalityType
  <2>4. Cardinality(Found(filter)) \in Nat /\ Cardinality(left) \in Nat BY WalkFinite
  <2>5. offset \in Nat /\ Len(page) \in Nat BY <1>3, LenProperties DEF TypeOK
  <2> QED BY <1>1, <2>3, <2>4, <2>5 DEF RowsCounted
<1>9. Untied' \subseteq Untied
  BY <1>1, <1>2, <1>3 DEF Untied
<1>10. Missed' \subseteq Missed BY <1>1, <1>9 DEF Missed, Given
<1>11. Overlooked' \subseteq Overlooked
  <2> SUFFICES ASSUME NEW i \in Overlooked' PROVE Place(i) < Behind
    BY <1>10 DEF Overlooked
  <2>1. i \in Id BY <1>3, <1>10 DEF Overlooked, Missed, Untied
  <2>2. Before(i) \in SUBSET (Before(i)')
    <3> SUFFICES ASSUME NEW j \in Before(i) PROVE j \in Before(i)' OBVIOUS
    <3>1. j \in Id /\ j \in Found(filter) /\ rows[j].created > rows[i].created BY DEF Before, Found
    <3>2. j \in Found(filter)' BY <1>1, <1>2, <3>1 DEF Found, Wanted
    <3> QED BY <1>2, <2>1, <3>1, <3>2 DEF Before
  <2>3. IsFiniteSet(Before(i)') BY <1>2, FS_Subset DEF Before, Found
  <2>4. Place(i) <= Place(i)' /\ Place(i)' \in Nat /\ Place(i) \in Nat
    BY <2>2, <2>3, FS_Subset, FS_CardinalityType, WalkFinite DEF Place
  <2>5. Place(i)' < Behind' BY DEF Overlooked
  <2>6. Behind' = Behind /\ Behind \in Nat BY <1>1, <1>3, LenProperties DEF Behind, TypeOK
  <2> QED BY <2>4, <2>5, <2>6
<1>12. /\ IsFiniteSet(Missed) /\ Cardinality(Missed) \in Nat
       /\ IsFiniteSet(Overlooked) /\ Cardinality(Overlooked) \in Nat /\ Cardinality(left) \in Nat
  BY WalkFinite
<1>13. /\ Cardinality(Missed') <= Cardinality(Missed) /\ Cardinality(Missed') \in Nat
       /\ Cardinality(Overlooked') <= Cardinality(Overlooked) /\ Cardinality(Overlooked') \in Nat
  BY <1>10, <1>11, <1>12, FS_Subset, FS_CardinalityType
<1>14. FewOverlooked' BY <1>1, <1>12, <1>13 DEF FewOverlooked
<1> QED BY <1>4, <1>5, <1>6, <1>7, <1>8, <1>14

\* A set that loses one element gets smaller by one at most.
LEMMA RemoveOne ==
    ASSUME NEW S, NEW x, IsFiniteSet(S)
    PROVE  /\ Cardinality(S) \in Nat /\ Cardinality(S \ {x}) \in Nat
           /\ Cardinality(S \ {x}) >= Cardinality(S) - 1
<1>1. Cardinality(S) \in Nat BY FS_CardinalityType
<1>2. /\ IsFiniteSet(S \ {x})
      /\ Cardinality(S \ {x}) = IF x \in S THEN Cardinality(S) - 1 ELSE Cardinality(S)
  BY FS_RemoveElement
<1>3. Cardinality(S \ {x}) \in Nat BY <1>2, FS_CardinalityType
<1> QED BY <1>1, <1>2, <1>3

\* A promotion changes the status of one row and nothing else of the table.
LEMMA PromoteKeepsRows ==
    ASSUME TypeOK, LeftRows, NEW i \in Id, Promote(i)
    PROVE  /\ rows' \in Seq(Row) /\ Id' = Id /\ i \notin left
           /\ \A j \in Id : rows'[j].owner = rows[j].owner /\ rows'[j].created = rows[j].created
           /\ \A j \in Id : j # i => rows'[j] = rows[j]
           /\ rows'[i].status = "admin"
           /\ \A f : \A j \in Id : j \in Found(f)' <=> j \in Found(f) /\ j # i
<1> DEFINE r == [rows[i] EXCEPT !.status = "admin"]
<1>1. /\ list = "users" /\ list' = list /\ rows[i].status = "client"
      /\ rows' = [rows EXCEPT ![i] = r]
  BY DEF Promote
<1>2. rows[i] \in Row BY RowShape
<1>3. r \in Row /\ r.owner = rows[i].owner /\ r.created = rows[i].created /\ r.status = "admin"
  BY <1>2 DEF Row
<1>4. i \in 1 .. Len(rows) /\ rows \in Seq(Row) BY IdFinite DEF TypeOK
<1> HIDE DEF r
<1>5. /\ rows' \in Seq(Row) /\ Len(rows') = Len(rows)
      /\ \A j \in 1 .. Len(rows) : rows'[j] = IF j = i THEN r ELSE rows[j]
  BY <1>1, <1>3, <1>4, ExceptSeq
<1>6. Id = 1 .. Len(rows) /\ Id' = Id BY <1>5, IdFinite, LenProperties DEF Id
<1>7. i \notin left BY <1>1 DEF LeftRows
<1>8. \A f : \A j \in Id : j # i => (Wanted(rows[j], f)' <=> Wanted(rows[j], f))
  BY <1>1, <1>5, <1>6 DEF Wanted
<1>9. \A f : ~Wanted(rows[i], f)' BY <1>1, <1>3, <1>5, <1>6 DEF Wanted
<1>10. \A f : \A j \in Id : j \in Found(f)' <=> j \in Found(f) /\ j # i
  BY <1>6, <1>8, <1>9 DEF Found
<1> QED BY <1>3, <1>5, <1>6, <1>7, <1>10

\* Of two rows found, the later one comes first.
LEMMA LaterComesFirst ==
    ASSUME TypeOK, NEW k \in Found(filter), NEW m \in Found(filter),
           rows[k].created > rows[m].created
    PROVE  Place(k) < Place(m)
<1>1. k \in Id /\ m \in Id BY DEF Found
<1>2. rows[k].created \in Nat /\ rows[m].created \in Nat BY <1>1, RowShape
<1>3. k \in Before(m) /\ k \notin Before(k) BY <1>2 DEF Before
<1>4. Before(k) \cup {k} \in SUBSET Before(m)
  <2> SUFFICES ASSUME NEW j \in Before(k) PROVE j \in Before(m) BY <1>3
  <2>1. j \in Found(filter) /\ rows[j].created > rows[k].created /\ rows[j].created \in Nat
    BY RowShape DEF Before, Found
  <2> QED BY <1>2, <2>1 DEF Before
<1>5. Cardinality(Before(k) \cup {k}) = Place(k) + 1 BY <1>3, WalkFinite, FS_AddElement DEF Place
<1>6. Cardinality(Before(k) \cup {k}) <= Place(m) BY <1>4, WalkFinite, FS_Subset DEF Place
<1>7. Place(k) \in Nat /\ Place(m) \in Nat BY WalkFinite
<1> QED BY <1>5, <1>6, <1>7

\* Rows that share their time with no other row have places of their own.
LEMMA PlacesDiffer ==
    ASSUME TypeOK, NEW k \in Found(filter), NEW m \in Found(filter),
           k \in Untied, m \in Untied, k # m
    PROVE  Place(k) # Place(m)
<1>1. k \in Id /\ m \in Id BY DEF Found
<1>2. rows[k].created \in Nat /\ rows[m].created \in Nat BY <1>1, RowShape
<1>3. rows[k].created # rows[m].created BY <1>1 DEF Untied
<1>4. Place(k) \in Nat /\ Place(m) \in Nat BY WalkFinite
<1>5. CASE rows[k].created > rows[m].created BY <1>4, <1>5, LaterComesFirst
<1>6. CASE rows[m].created > rows[k].created BY <1>4, <1>6, LaterComesFirst
<1> QED BY <1>2, <1>3, <1>5, <1>6

LEMMA PromoteListInv == ASSUME ListInv, NEW i \in Id, Promote(i) PROVE ListInv'
<1> USE DEF ListInv
<1>1. /\ at' = at /\ filter' = filter /\ limit' = limit /\ offset' = offset /\ page' = page
      /\ total' = total /\ seen' = seen /\ first' = first /\ left' = left \cup {i}
      /\ list' = list /\ list = "users"
  BY DEF Promote
<1>2. /\ rows' \in Seq(Row) /\ Id' = Id /\ i \notin left
      /\ \A j \in Id : rows'[j].owner = rows[j].owner /\ rows'[j].created = rows[j].created
      /\ \A j \in Id : j # i => rows'[j] = rows[j]
      /\ rows'[i].status = "admin"
      /\ \A f : \A j \in Id : j \in Found(f)' <=> j \in Found(f) /\ j # i
  BY PromoteKeepsRows
<1>3. /\ first \subseteq Id /\ left \subseteq Id /\ seen \subseteq Id /\ page \in Seq(Id)
      /\ ToSet(page) \subseteq Id
  BY LenProperties, ElementOfSeq DEF TypeOK, ToSet
<1>4. TypeOK' BY <1>1, <1>2, <1>3 DEF TypeOK
<1>5. WalkShape' BY <1>1 DEF WalkShape, Asks
<1>6. LeftRows'
  <2>1. \A j \in left' : rows'[j].status = "admin" BY <1>1, <1>2, <1>3 DEF LeftRows
  <2>2. \A j \in first : j \in Found(filter)' \/ j \in left' BY <1>1, <1>2, <1>3 DEF LeftRows
  <2> QED BY <1>1, <2>1, <2>2 DEF LeftRows
<1>7. FilterHonoured'
  <2>1. \A j \in Id : j # i => (Wanted(rows[j], filter) => Wanted(rows[j], filter)')
    BY <1>1, <1>2 DEF Wanted
  <2> QED BY <1>1, <1>3, <2>1 DEF FilterHonoured
<1>8. /\ IsFiniteSet(left) /\ Cardinality(left) \in Nat
      /\ IsFiniteSet(left') /\ Cardinality(left') = Cardinality(left) + 1
  BY <1>1, <1>2, WalkFinite, FS_AddElement
<1>9. RowsCounted'
  <2>1. Found(filter) \ {i} = Found(filter)' BY <1>1, <1>2 DEF Found
  <2>2. Cardinality(Found(filter)') >= Cardinality(Found(filter)) - 1
        /\ Cardinality(Found(filter)') \in Nat /\ Cardinality(Found(filter)) \in Nat
    BY <2>1, WalkFinite, RemoveOne
  <2>3. offset \in Nat /\ Len(page) \in Nat /\ total \in Nat BY <1>3, LenProperties DEF TypeOK
  <2> QED BY <1>1, <1>8, <2>2, <2>3 DEF RowsCounted
<1>10. Untied' = Untied BY <1>1, <1>2, <1>3 DEF Untied
<1>11. Missed' \subseteq Missed BY <1>1, <1>10 DEF Missed, Given
<1> DEFINE E == {k \in Untied : k \in Found(filter) /\ Place(k) = Behind}
<1>12. Overlooked' \subseteq Overlooked \cup E
  <2> SUFFICES ASSUME NEW k \in Overlooked' PROVE k \in Overlooked \cup E OBVIOUS
  <2>1. k \in Missed /\ k \in Untied /\ k \in Id BY <1>3, <1>11 DEF Overlooked, Missed, Untied
  <2>2. k \in Found(filter) BY <2>1 DEF Missed, Untied, LeftRows
  <2>3. Before(k)' = Before(k) \ {i}
    <3>1. ASSUME NEW j PROVE j \in Before(k)' <=> j \in Before(k) /\ j # i
      <4>1. j \in Found(filter)' <=> j \in Found(filter) /\ j # i BY <1>1, <1>2 DEF Found
      <4>2. j \in Found(filter) => j \in Id BY DEF Found
      <4> QED BY <1>2, <2>1, <4>1, <4>2 DEF Before
    <3> QED BY <3>1
  <2>4. Place(k)' >= Place(k) - 1 /\ Place(k)' \in Nat /\ Place(k) \in Nat
    BY <2>3, WalkFinite, RemoveOne DEF Place
  <2>5. Place(k)' < Behind' /\ Behind' = Behind BY <1>1 DEF Overlooked, Behind
  <2>6. Behind \in Nat BY <1>3, LenProperties DEF Behind, TypeOK
  <2>7. Place(k) < Behind \/ Place(k) = Behind BY <2>4, <2>5, <2>6
  <2> QED BY <2>1, <2>2, <2>7 DEF Overlooked
<1>13. IsFiniteSet(E) /\ Cardinality(E) \in Nat /\ Cardinality(E) <= 1
  <2>1. CASE E = {} BY <2>1, FS_EmptySet
  <2>2. CASE E # {}
    <3>1. PICK e : e \in E BY <2>2
    <3>2. \A k \in E : k = e BY <3>1, PlacesDiffer
    <3>3. E = {e} BY <3>1, <3>2
    <3>4. IsFiniteSet({e}) /\ Cardinality({e}) = 1 BY FS_Singleton
    <3> HIDE DEF E
    <3> QED BY <3>3, <3>4
  <2> QED BY <2>1, <2>2
<1> HIDE DEF E
<1>14. Cardinality(Overlooked') <= Cardinality(Overlooked) + 1
  <2>1. IsFiniteSet(Overlooked) /\ Cardinality(Overlooked) \in Nat BY WalkFinite
  <2>2. /\ IsFiniteSet(Overlooked \cup E)
        /\ Cardinality(Overlooked \cup E)
             = Cardinality(Overlooked) + Cardinality(E) - Cardinality(Overlooked \cap E)
    BY <1>13, <2>1, FS_Union
  <2>3. Cardinality(Overlooked \cap E) \in Nat BY <2>1, FS_Intersection, FS_CardinalityType
  <2>4. Cardinality(Overlooked') <= Cardinality(Overlooked \cup E) /\ Cardinality(Overlooked') \in Nat
    BY <1>12, <2>2, FS_Subset, FS_CardinalityType
  <2> QED BY <1>13, <2>1, <2>2, <2>3, <2>4
<1>15. Cardinality(Missed') <= Cardinality(Missed) /\ Cardinality(Missed') \in Nat
  BY <1>11, WalkFinite, FS_Subset, FS_CardinalityType
<1>16. FewOverlooked'
  <2>1. Cardinality(Overlooked') \in Nat BY <1>12, <1>13, WalkFinite, FS_Union, FS_Subset, FS_CardinalityType
  <2>2. Cardinality(Missed) \in Nat /\ Cardinality(Overlooked) \in Nat BY WalkFinite
  <2> QED BY <1>1, <1>8, <1>14, <1>15, <2>1, <2>2 DEF FewOverlooked
<1> QED BY <1>4, <1>5, <1>6, <1>7, <1>9, <1>16

-------------------------------------------------------------------------------
(* Every step keeps the invariant: the walk.                               *)

\* Nothing is missed or gone past before the first page.
LEMMA BeginListInv ==
    ASSUME ListInv, NEW f \in Filter, NEW l \in Asked, NEW o \in Asked, o <= 0, Begin(f, l, o)
    PROVE  ListInv'
<1> USE DEF ListInv
<1>1. /\ at = "idle" /\ at' = "list" /\ filter' = f /\ limit' = Limit(l) /\ offset' = Offset(o)
      /\ seen' = {} /\ left' = {} /\ list' = list /\ rows' = rows /\ page' = page
      /\ total' = total /\ first' = {i \in Id : Wanted(rows[i], f)}
      /\ Asks(f)
  BY DEF Begin, Asks
<1>2. page = <<>> /\ page' = <<>> BY <1>1 DEF WalkShape
<1>3. l \in Int /\ o \in Int BY ListAssumption
<1>4. Limit(l) \in 0 .. MaxLimit /\ Limit(l) > 0 BY <1>3, ListAssumption DEF Limit
<1>5. offset' = 0 BY <1>1, <1>3 DEF Offset
<1>6. TypeOK'
  <2>1. Id' = Id /\ page' \in Seq(Id) BY <1>1 DEF TypeOK, Id
  <2>2. first' \subseteq Id BY <1>1
  <2> QED BY <1>1, <1>4, <1>5, <2>1, <2>2 DEF TypeOK
<1>7. WalkShape' BY <1>1, <1>2, <1>4 DEF WalkShape, Asks
<1>8. LeftRows' BY <1>1 DEF LeftRows, Found, Wanted, Id
<1>9. FilterHonoured' BY <1>1, <1>2, <1>4 DEF FilterHonoured, ToSet
<1>10. RowsCounted' BY <1>2 DEF RowsCounted
<1>11. Behind' = 0 BY <1>2, <1>5 DEF Behind
<1>12. Overlooked' = {}
  <2>1. ASSUME NEW i PROVE Place(i)' \in Nat
    <3>1. Before(i)' \in SUBSET Id BY <1>1 DEF Before, Found, Id
    <3> QED BY <3>1, IdFinite DEF Place
  <2> QED BY <1>11, <2>1 DEF Overlooked
<1>13. FewOverlooked' BY <1>1, <1>12, FS_EmptySet DEF FewOverlooked
<1> QED BY <1>6, <1>7, <1>8, <1>9, <1>10, <1>13

LEMMA ResetListInv == ASSUME ListInv, Reset PROVE ListInv'
<1> USE DEF ListInv
<1>1. /\ at' = "idle" /\ filter' = [owner |-> Unset, status |-> Unset]
      /\ limit' = 0 /\ offset' = 0 /\ page' = <<>> /\ total' = 0
      /\ seen' = {} /\ first' = {} /\ left' = {} /\ list' = list /\ rows' = rows
  BY DEF Reset
<1>2. TypeOK'
  <2>1. page' \in Seq(Id') BY <1>1, EmptySeq
  <2> QED BY <1>1, <2>1, ListAssumption DEF TypeOK, Filter
<1>3. WalkShape' /\ LeftRows' /\ RowsCounted' BY <1>1 DEF WalkShape, LeftRows, RowsCounted
<1>4. FilterHonoured' BY <1>1 DEF FilterHonoured, ToSet
<1>5. Missed' = {} /\ Overlooked' = {} BY <1>1 DEF Missed, Overlooked, Untied
<1>6. FewOverlooked' BY <1>1, <1>5, FS_EmptySet DEF FewOverlooked
<1> QED BY <1>2, <1>3, <1>4, <1>6

\* A row of the beginning that is on none of the pages so far, and has not
\* left, is found, at its own place.
LEMMA MissedIsFound ==
    ASSUME TypeOK, LeftRows, NEW i \in first, i \notin left
    PROVE  i \in Found(filter) /\ i \in Id
BY DEF TypeOK, LeftRows

\* The page gives the rows between the offset and its own end; so no row is
\* newly gone past, and behind an empty page there are none.
LEMMA SelectPageListInv == ASSUME ListInv, SelectPage PROVE ListInv'
<1> USE DEF ListInv
<1>1. /\ at = "list" /\ at' = (IF list = "history" THEN "answer" ELSE "count")
      /\ page' \in Pages(ListQuery(filter, limit, offset))
      /\ list' = list /\ rows' = rows /\ filter' = filter /\ limit' = limit /\ offset' = offset
      /\ total' = total /\ seen' = seen /\ first' = first /\ left' = left
  BY DEF SelectPage
<1>2. page = <<>> /\ limit > 0 /\ Asks(filter) BY <1>1 DEF WalkShape
<1> DEFINE M == Found(filter)
<1>3. PICK s \in Ordered(M) :
          /\ page' \in Seq(M) /\ Len(page') \in Nat /\ Len(page') <= limit
          /\ page' # <<>> => offset + Len(page') <= Len(s)
          /\ page' = <<>> => Len(s) <= offset
          /\ \A k \in Nat : offset < k /\ k <= offset + Len(page') => page'[k - offset] = s[k]
  BY <1>1, <1>2, PageIsSlice
<1>4. M \in SUBSET Id /\ Id' = Id /\ M' = M BY <1>1 DEF Found, Id, Wanted
<1>5. Len(s) = Cardinality(M) /\ Cardinality(M) \in Nat BY <1>3, <1>4, OrderedHasAll
<1>6. offset \in Nat /\ limit \in Nat BY ListAssumption DEF TypeOK
<1> HIDE DEF M
<1>7. TypeOK'
  <2>1. page' \in Seq(Id') BY <1>3, <1>4, SeqMonotonic
  <2>2. at' \in {"answer", "count"} BY <1>1
  <2> QED BY <1>1, <1>4, <2>1, <2>2 DEF TypeOK
<1>8. WalkShape' BY <1>1, <1>2 DEF WalkShape, Asks
<1>9. LeftRows' BY <1>1, <1>4 DEF LeftRows, M
<1>10. DOMAIN page' = 1 .. Len(page') BY <1>3, LenProperties
<1>11. FilterHonoured'
  <2>1. \A k \in DOMAIN page' : page'[k] \in M BY <1>3, <1>10, ElementOfSeq
  <2>2. \A i \in M : Wanted(rows[i], filter)' BY <1>1 DEF M, Found, Wanted
  <2> QED BY <1>1, <1>3, <2>1, <2>2 DEF FilterHonoured, ToSet
<1>12. Cardinality(left) \in Nat /\ IsFiniteSet(left) BY WalkFinite
<1>13. RowsCounted' BY <1>1, <1>3, <1>4, <1>5, <1>6, <1>12 DEF RowsCounted, M
<1>14. Untied' = Untied BY <1>1, <1>4 DEF Untied
<1>15. Given = seen /\ Given' = seen \cup ToSet(page') BY <1>1, <1>2 DEF Given, ToSet
<1>16. Behind = offset /\ Behind' = offset + Len(page') BY <1>1, <1>2, <1>6 DEF Behind
<1>17. Missed' \subseteq Missed BY <1>1, <1>14, <1>15 DEF Missed
<1>18. ASSUME NEW i \in Missed'
       PROVE  /\ Place(i) \in Nat /\ Place(i) < Len(s) /\ s[Place(i) + 1] = i
              /\ Place(i)' = Place(i)
  <2>1. i \in Missed /\ i \in Untied /\ i \in first /\ i \notin left BY <1>17 DEF Missed, Untied
  <2>2. i \in M /\ i \in Id BY <2>1, MissedIsFound DEF M
  <2>3. \A j \in Id : rows[j].created = rows[i].created => j = i BY <2>1 DEF Untied
  <2>4. Before(i) = {j \in M : rows[j].created > rows[i].created} BY DEF Before, M
  <2>5. Place(i) \in Nat /\ Place(i) < Len(s) /\ s[Place(i) + 1] = i
    BY <1>3, <1>4, <2>2, <2>3, <2>4, OrderedPlace DEF Place
  <2>6. Before(i)' = Before(i) BY <1>1, <1>4 DEF Before, M
  <2> QED BY <2>5, <2>6 DEF Place
<1>19. Overlooked' \subseteq Overlooked
  <2> SUFFICES ASSUME NEW i \in Overlooked' PROVE i \in Overlooked OBVIOUS
  <2>1. i \in Missed' /\ i \in Missed /\ Place(i)' < Behind' BY <1>17 DEF Overlooked
  <2>2. Place(i) \in Nat /\ s[Place(i) + 1] = i /\ Place(i) < offset + Len(page')
    BY <1>16, <1>18, <2>1
  <2>3. i \notin ToSet(page') BY <1>15, <2>1 DEF Missed
  <2>4. ~(offset <= Place(i))
    <3> SUFFICES ASSUME offset <= Place(i) PROVE FALSE OBVIOUS
    <3> DEFINE k == Place(i) + 1
    <3>1. k \in Nat /\ offset < k /\ k <= offset + Len(page') /\ s[k] = i
      BY <1>3, <1>6, <2>2
    <3> HIDE DEF k
    <3>2. page'[k - offset] = i BY <1>3, <3>1
    <3>3. k - offset \in 1 .. Len(page') BY <1>3, <1>6, <3>1
    <3> QED BY <1>10, <2>3, <3>2, <3>3 DEF ToSet
  <2> QED BY <1>6, <1>16, <2>1, <2>2, <2>4 DEF Overlooked
<1>20. page' = <<>> => Missed' \subseteq Overlooked
  <2> SUFFICES ASSUME page' = <<>>, NEW i \in Missed' PROVE i \in Overlooked OBVIOUS
  <2>1. Place(i) \in Nat /\ Place(i) < Len(s) /\ Len(s) <= offset BY <1>3, <1>18
  <2>2. Place(i) < Behind BY <1>5, <1>6, <1>16, <2>1
  <2> QED BY <1>17, <2>2 DEF Overlooked
<1>21. IsFiniteSet(Overlooked) /\ Cardinality(Overlooked) \in Nat BY WalkFinite
<1>22. Cardinality(Overlooked') <= Cardinality(Overlooked) /\ Cardinality(Overlooked') \in Nat
  BY <1>19, <1>21, FS_Subset, FS_CardinalityType
<1>23. page' = <<>> => Cardinality(Missed') <= Cardinality(Overlooked) /\ Cardinality(Missed') \in Nat
  BY <1>20, <1>21, FS_Subset, FS_CardinalityType
<1>24. FewOverlooked' BY <1>1, <1>12, <1>21, <1>22, <1>23 DEF FewOverlooked
<1> QED BY <1>7, <1>8, <1>9, <1>11, <1>13, <1>24

\* Steps that leave the table and the filter alone find the same rows.
LEMMA SameTable ==
    ASSUME UNCHANGED <<list, rows, filter, first>>
    PROVE  /\ Id' = Id /\ Found(filter)' = Found(filter) /\ Untied' = Untied
           /\ \A i : Place(i)' = Place(i)
BY DEF Id, Found, Wanted, Untied, Place, Before

LEMMA CountRowsListInv == ASSUME ListInv, CountRows PROVE ListInv'
<1> USE DEF ListInv
<1>1. /\ at = "count" /\ at' = "answer" /\ total' = Cardinality(Matching(CountQuery(filter)))
      /\ list' = list /\ rows' = rows /\ filter' = filter /\ limit' = limit /\ offset' = offset
      /\ page' = page /\ seen' = seen /\ first' = first /\ left' = left
  BY DEF CountRows
<1>2. limit > 0 /\ Asks(filter) BY <1>1 DEF WalkShape
<1>3. total' = Cardinality(Found(filter)) /\ total' \in Nat
  <2>1. filter \in Filter /\ 0 \in Nat BY DEF TypeOK
  <2> QED BY <1>1, <1>2, <2>1, QueriesFind, WalkFinite
<1>4. /\ Id' = Id /\ Found(filter)' = Found(filter) /\ Untied' = Untied
      /\ \A i : Place(i)' = Place(i)
  BY <1>1, SameTable
<1>5. TypeOK' BY <1>1, <1>3, <1>4 DEF TypeOK
<1>6. WalkShape' BY <1>1, <1>2 DEF WalkShape, Asks
<1>7. LeftRows' BY <1>1, <1>4 DEF LeftRows
<1>8. FilterHonoured' BY <1>1 DEF FilterHonoured, Wanted
<1>9. RowsCounted' BY <1>1, <1>3 DEF RowsCounted
<1>10. Missed' = Missed BY <1>1, <1>4 DEF Missed, Given
<1>11. Overlooked' = Overlooked BY <1>1, <1>4, <1>10 DEF Overlooked, Behind
<1>12. FewOverlooked' BY <1>1, <1>10, <1>11 DEF FewOverlooked
<1> QED BY <1>5, <1>6, <1>7, <1>8, <1>9, <1>12

\* Going on behind the page changes neither what was given nor how far the
\* walk has come.
LEMMA NextPageListInv == ASSUME ListInv, NextPage PROVE ListInv'
<1> USE DEF ListInv
<1>1. /\ at = "answer" /\ at' = "list" /\ page # <<>> /\ page' = <<>> /\ total' = 0
      /\ seen' = seen \cup ToSet(page) /\ offset' = offset + Len(page)
      /\ list' = list /\ rows' = rows /\ filter' = filter /\ limit' = limit
      /\ first' = first /\ left' = left
  BY DEF NextPage
<1>2. limit > 0 /\ Asks(filter) BY <1>1 DEF WalkShape
<1>3. /\ Id' = Id /\ Found(filter)' = Found(filter) /\ Untied' = Untied
      /\ \A i : Place(i)' = Place(i)
  BY <1>1, SameTable
<1>4. ToSet(page) \subseteq Id /\ Len(page) \in Nat /\ offset \in Nat
  BY LenProperties, ElementOfSeq DEF TypeOK, ToSet
<1>5. ToSet(page') = {} /\ Len(page') = 0 BY <1>1 DEF ToSet
<1>6. TypeOK'
  <2>1. page' \in Seq(Id') BY <1>1, EmptySeq
  <2> QED BY <1>1, <1>3, <1>4, <2>1 DEF TypeOK
<1>7. WalkShape' BY <1>1, <1>2 DEF WalkShape, Asks
<1>8. LeftRows' BY <1>1, <1>3 DEF LeftRows
<1>9. FilterHonoured' BY <1>1, <1>5, ListAssumption DEF FilterHonoured, TypeOK
<1>10. RowsCounted' BY <1>1 DEF RowsCounted
<1>11. Given' = Given BY <1>1, <1>5 DEF Given
<1>12. Behind' = Behind BY <1>1, <1>4, <1>5 DEF Behind
<1>13. Missed' = Missed BY <1>1, <1>3, <1>11 DEF Missed
<1>14. Overlooked' = Overlooked BY <1>3, <1>12, <1>13 DEF Overlooked
<1>15. FewOverlooked' BY <1>1, <1>14 DEF FewOverlooked
<1> QED BY <1>6, <1>7, <1>8, <1>9, <1>10, <1>15

LEMMA EndWalkListInv == ASSUME ListInv, EndWalk PROVE ListInv'
<1> USE DEF ListInv
<1>1. /\ at = "answer" /\ at' = "end" /\ page = <<>> /\ total' = 0
      /\ list' = list /\ rows' = rows /\ filter' = filter /\ limit' = limit /\ offset' = offset
      /\ page' = page /\ seen' = seen /\ first' = first /\ left' = left
  BY DEF EndWalk
<1>2. limit > 0 /\ Asks(filter) BY <1>1 DEF WalkShape
<1>3. /\ Id' = Id /\ Found(filter)' = Found(filter) /\ Untied' = Untied
      /\ \A i : Place(i)' = Place(i)
  BY <1>1, SameTable
<1>4. TypeOK' BY <1>1, <1>3 DEF TypeOK
<1>5. WalkShape' BY <1>1, <1>2 DEF WalkShape, Asks
<1>6. LeftRows' BY <1>1, <1>3 DEF LeftRows
<1>7. FilterHonoured' BY <1>1 DEF FilterHonoured, Wanted
<1>8. RowsCounted' BY <1>1 DEF RowsCounted
<1>9. Missed' = Missed BY <1>1, <1>3 DEF Missed, Given
<1>10. Overlooked' = Overlooked BY <1>1, <1>3, <1>9 DEF Overlooked, Behind
<1>11. FewOverlooked' BY <1>1, <1>9, <1>10 DEF FewOverlooked
<1> QED BY <1>4, <1>5, <1>6, <1>7, <1>8, <1>11

LEMMA StutterListInv == ASSUME ListInv, UNCHANGED vars PROVE ListInv'
<1> USE DEF ListInv
<1>1. /\ list' = list /\ rows' = rows /\ at' = at /\ filter' = filter /\ limit' = limit
      /\ offset' = offset /\ page' = page /\ total' = total /\ seen' = seen
      /\ first' = first /\ left' = left
  BY DEF vars, walk
<1>2. /\ Id' = Id /\ Found(filter)' = Found(filter) /\ Untied' = Untied
      /\ \A i : Place(i)' = Place(i)
  BY <1>1, SameTable
<1>3. TypeOK' BY <1>1, <1>2 DEF TypeOK
<1>4. WalkShape' /\ LeftRows' BY <1>1, <1>2 DEF WalkShape, LeftRows, Asks
<1>5. FilterHonoured' BY <1>1 DEF FilterHonoured, Wanted
<1>6. RowsCounted' BY <1>1, <1>2 DEF RowsCounted
<1>7. Missed' = Missed BY <1>1, <1>2 DEF Missed, Given
<1>8. Overlooked' = Overlooked BY <1>1, <1>2, <1>7 DEF Overlooked, Behind
<1>9. FewOverlooked' BY <1>1, <1>7, <1>8 DEF FewOverlooked
<1> QED BY <1>3, <1>4, <1>5, <1>6, <1>9

LEMMA NextListInv == ListInv /\ [Next]_vars => ListInv'
<1> SUFFICES ASSUME ListInv, [Next]_vars PROVE ListInv' OBVIOUS
<1>1. ASSUME NEW o \in Owner, NEW t \in 1 .. MaxTime, Insert(o, t) PROVE ListInv'
  BY <1>1, InsertListInv
<1>2. ASSUME NEW i \in Id, Promote(i) PROVE ListInv' BY <1>2, PromoteListInv
<1>3. ASSUME NEW f \in Filter, NEW l \in Asked, NEW o \in Asked, o <= 0, Begin(f, l, o)
      PROVE  ListInv'
  BY <1>3, BeginListInv
<1>4. CASE Fail BY <1>4, ResetListInv DEF Fail
<1>5. CASE SelectPage BY <1>5, SelectPageListInv
<1>6. CASE CountRows BY <1>6, CountRowsListInv
<1>7. CASE NextPage BY <1>7, NextPageListInv
<1>8. CASE EndWalk BY <1>8, EndWalkListInv
<1>9. CASE Leave BY <1>9, ResetListInv DEF Leave
<1>10. CASE UNCHANGED vars BY <1>10, StutterListInv
<1> QED BY <1>1, <1>2, <1>3, <1>4, <1>5, <1>6, <1>7, <1>8, <1>9, <1>10 DEF Next

-------------------------------------------------------------------------------
(* What holds of every walk.                                               *)

\* The inductive invariant: the rows a walk has gone past without giving them
\* to the client are at most as many as the rows that left the list meanwhile.
THEOREM WalkCorrect == Spec => []ListInv
<1>1. Init => ListInv BY InitListInv
<1>2. ListInv /\ [Next]_vars => ListInv' BY NextListInv
<1> QED BY <1>1, <1>2, PTL DEF Spec

\* Table, page and walk keep their shape, and the limit its bound, for any
\* users, filters and numbers a client sends.
THEOREM TypeCorrect == Spec => []TypeOK
<1>1. ListInv => TypeOK BY DEF ListInv
<1> QED BY <1>1, WalkCorrect, PTL

\* Whatever filters are set, a page has only rows that were asked for, or that
\* left since it was read, and not more than the limit (query_builder.go:20).
THEOREM FiltersHonoured == Spec => []FilterHonoured
<1>1. ListInv => FilterHonoured BY DEF ListInv
<1> QED BY <1>1, WalkCorrect, PTL

\* The count that comes with a page covers the rows up to its end, but for
\* those that left after the page was read (order_repository.go:82).
THEOREM TotalsCoverPages == Spec => []TotalCoversPage
<1>1. ListInv => TotalCoversPage BY DEF ListInv, RowsCounted, TotalCoversPage
<1> QED BY <1>1, WalkCorrect, PTL

\* A walk to the end misses at most one row for every row that left the list,
\* among the rows no other row shares its time with; inserts hide none.
THEOREM WalksMissFew == Spec => []WalkMissesOneRowPerRemoval
<1>1. ListInv => WalkMissesOneRowPerRemoval
  <2> SUFFICES ASSUME ListInv, at = "end"
               PROVE  Cardinality({i \in Untied : i \notin seen \cup left}) <= Cardinality(left)
    BY DEF WalkMissesOneRowPerRemoval, Untied
  <2>1. page = <<>> BY DEF ListInv, WalkShape
  <2>2. Given = seen BY <2>1 DEF Given, ToSet
  <2>3. Missed = {i \in Untied : i \notin seen \cup left} BY <2>2 DEF Missed
  <2> QED BY <2>1, <2>3 DEF ListInv, FewOverlooked
<1> QED BY <1>1, WalkCorrect, PTL

===============================================================================
