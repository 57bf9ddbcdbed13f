------------------------------- MODULE Listings -------------------------------
(***************************************************************************)
(* The paged lists: query_builder.go, the list and count queries of        *)
(* user_repository.go, order_repository.go and transaction_repository.go,  *)
(* and the handlers that serve them.                                       *)
(*                                                                         *)
(* A client walks a list page by page while rows are inserted and, in the  *)
(* list of users, leave it.  One page is two statements, the rows and then *)
(* their count; nothing makes them see the same table.                     *)
(*                                                                         *)
(* `list' says which of the four lists the table is:                       *)
(*   users      GET /admin/users           role and e-mail pattern         *)
(*   exchanges  GET /admin/exchanges       optional status, optional e-mail*)
(*   mine       GET /client/exchanges      user_id                         *)
(*   history    GET /client/transactions   user_id, no count               *)
(* The owner of a row is its e-mail or its user_id, its status the role of *)
(* a user.  Texts of queries are kept as far as their placeholders go.     *)
(***************************************************************************)
EXTENDS Integers, Sequences, FiniteSets, SequencesExt

CONSTANTS
    Owner,         \* users
    Like,          \* the users whose e-mail contains the e-mail of another
    Unset,           \* a filter that is not set
    Status,        \* what a status filter can ask for
    DefaultLimit,  \* 20
    MaxLimit,      \* 100
    Asked,         \* numbers a client sends as limit and first offset
    MaxRow,        \* bound on the rows
    MaxTime        \* bound on created_at

ASSUME ListAssumption ==
    /\ Like \in [Owner -> SUBSET Owner] /\ \A o \in Owner : o \in Like[o]
    /\ Unset \notin Owner \cup Status /\ {"client", "completed"} \subseteq Status
    /\ DefaultLimit \in Nat \ {0} /\ MaxLimit \in Nat /\ DefaultLimit <= MaxLimit
    /\ Asked \subseteq Int
    /\ MaxRow \in Nat /\ MaxTime \in Nat \ {0}

VARIABLES
    list,          \* which list
    rows,          \* the table, in the order rows became visible
    at,            \* where the walk is
    filter,        \* what the client asks for
    limit, offset, \* of the page, as the handler uses them
    page,          \* the page: positions in rows
    total,         \* the count answered with it
    seen,          \* rows the client has been given
    first,         \* history: the rows there were when the walk began
    left           \* history: rows that have left the list since

walk == <<at, filter, limit, offset, page, total, seen, first, left>>
vars == <<list, rows, walk>>

List == {"users", "exchanges", "mine", "history"}
Filter == [owner : Owner \cup {Unset}, status : Status \cup {Unset}]
Row == [owner : Owner, status : Status \cup {"admin"}, created : 1 .. MaxTime]
Id == DOMAIN rows

-------------------------------------------------------------------------------
(* QueryBuilder: conditions on columns, each with the number of its argument *)

NewBuilder == [where |-> <<>>, args |-> <<>>, counter |-> 1]

\* The condition's text was made with the counter as it is before the call.
AddWhere(qb, column, arg) ==
    [where |-> Append(qb.where, [column |-> column, place |-> qb.counter]),
     args |-> Append(qb.args, arg), counter |-> qb.counter + 1]

AddWhereIfSet(qb, column, arg) == IF arg = Unset THEN qb ELSE AddWhere(qb, column, arg)

\* Mutant of Paged: the two arguments are swapped.
PagedSwapped(qb, l, o) ==
    [where |-> qb.where, args |-> qb.args \o <<o, l>>,
     limit |-> qb.counter, offset |-> qb.counter + 1]

\* LIMIT $n OFFSET $n+1, and limit and offset at the end of the arguments.
Paged(qb, l, o) ==
    [where |-> qb.where, args |-> qb.args \o <<l, o>>,
     limit |-> qb.counter, offset |-> qb.counter + 1]

\* Mutant of Filtered: the e-mail is asked for only if the status is not.
FilteredElse(f) ==
    CASE list = "users" -> AddWhereIfSet(AddWhere(NewBuilder, "status", "client"), "email", f.owner)
      [] list = "exchanges" ->
            IF f.status = Unset THEN AddWhereIfSet(NewBuilder, "owner", f.owner)
            ELSE AddWhere(NewBuilder, "status", f.status)
      [] OTHER -> AddWhere(NewBuilder, "owner", f.owner)

\* The user_id of the client's own lists is always set.
Filtered(f) ==
    CASE list = "users" -> AddWhereIfSet(AddWhere(NewBuilder, "status", "client"), "email", f.owner)
      [] list = "exchanges" ->
            AddWhereIfSet(AddWhereIfSet(NewBuilder, "status", f.status), "owner", f.owner)
      [] OTHER -> AddWhere(NewBuilder, "owner", f.owner)

ListQuery(f, l, o) == Paged(Filtered(f), l, o)

\* Mutant of CountQuery: the count of users asks for the very e-mail.
CountQueryExact(f) ==
    IF list = "users" THEN AddWhereIfSet(AddWhere(NewBuilder, "status", "client"), "owner", f.owner)
    ELSE Filtered(f)

CountQuery(f) == Filtered(f)

-------------------------------------------------------------------------------
(* What the database makes of a query *)

Holds(row, column, arg) ==
    CASE column = "email" -> row.owner \in Like[arg]
      [] column = "owner" -> row.owner = arg
      [] column = "status" -> row.status = arg

Matching(q) ==
    {i \in Id : \A k \in DOMAIN q.where :
                    Holds(rows[i], q.where[k].column, q.args[q.where[k].place])}

\* ORDER BY created_at DESC: rows with the same time come in any order.
Ordered(ids) ==
    {s \in SetToSeqs(ids) :
        \A j, k \in DOMAIN s : j < k => rows[s[j]].created >= rows[s[k]].created}

Pages(q) ==
    LET from == q.args[q.offset]
        to(s) == IF from + q.args[q.limit] < Len(s) THEN from + q.args[q.limit] ELSE Len(s)
    IN  {SubSeq(s, from + 1, to(s)) : s \in Ordered(Matching(q))}

-------------------------------------------------------------------------------
(* The table *)

Init ==
    /\ list \in List
    /\ rows = <<>>
    /\ at = "idle" /\ filter = [owner |-> Unset, status |-> Unset]
    /\ limit = 0 /\ offset = 0 /\ page = <<>> /\ total = 0
    /\ seen = {} /\ first = {} /\ left = {}

\* created_at is the time the statement began, so that rows need not become
\* visible in its order.  E-mails are unique.
Insert(o, t) ==
    /\ Len(rows) < MaxRow
    /\ list = "users" => \A i \in Id : rows[i].owner # o
    /\ rows' = Append(rows, [owner |-> o, created |-> t,
                             status |-> IF list = "users" THEN "client" ELSE "completed"])
    /\ UNCHANGED <<list, walk>>

\* The administrator who makes another one by hand: no longer on the list.
Promote(i) ==
    /\ list = "users" /\ rows[i].status = "client"
    /\ rows' = [rows EXCEPT ![i].status = "admin"]
    /\ left' = left \cup {i}
    /\ UNCHANGED <<list, at, filter, limit, offset, page, total, seen, first>>

-------------------------------------------------------------------------------
(* A client that walks the list, and the handler of one page *)

\* What a row must be like to be what the client asks for.
Wanted(row, f) ==
    /\ CASE list = "users" -> f.owner = Unset \/ row.owner \in Like[f.owner]
         [] OTHER -> f.owner = Unset \/ row.owner = f.owner
    /\ list = "users" => row.status = "client"
    /\ list = "exchanges" => f.status = Unset \/ row.status = f.status

\* Mutant of Limit: no upper bound.
LimitUnbounded(n) == IF n <= 0 THEN DefaultLimit ELSE n

Limit(n) == IF n <= 0 \/ n > MaxLimit THEN DefaultLimit ELSE n
Offset(n) == IF n < 0 THEN 0 ELSE n

\* /client lists are those of the user the access token names.
Begin(f, l, o) ==
    /\ at = "idle"
    /\ list \in {"mine", "history"} => f.owner # Unset
    /\ list # "exchanges" => f.status = Unset
    /\ at' = "list" /\ filter' = f
    /\ limit' = Limit(l) /\ offset' = Offset(o)
    /\ seen' = {} /\ left' = {}
    /\ first' = {i \in Id : Wanted(rows[i], f)}
    /\ UNCHANGED <<list, rows, page, total>>

Reset ==
    /\ at' = "idle" /\ filter' = [owner |-> Unset, status |-> Unset]
    /\ limit' = 0 /\ offset' = 0 /\ page' = <<>> /\ total' = 0
    /\ seen' = {} /\ first' = {} /\ left' = {}
    /\ UNCHANGED <<list, rows>>

\* A statement that fails ends the request with an error, and the walk.
Fail == at \in {"list", "count"} /\ Reset

SelectPage ==
    /\ at = "list"
    /\ page' \in Pages(ListQuery(filter, limit, offset))
    /\ at' = IF list = "history" THEN "answer" ELSE "count"
    /\ UNCHANGED <<list, rows, filter, limit, offset, total, seen, first, left>>

CountRows ==
    /\ at = "count"
    /\ total' = Cardinality(Matching(CountQuery(filter)))
    /\ at' = "answer"
    /\ UNCHANGED <<list, rows, filter, limit, offset, page, seen, first, left>>

\* The client goes on behind the rows it got, until it gets none.
NextPage ==
    /\ at = "answer" /\ page # <<>>
    /\ seen' = seen \cup ToSet(page)
    /\ offset' = offset + Len(page)
    /\ at' = "list" /\ page' = <<>> /\ total' = 0
    /\ UNCHANGED <<list, rows, filter, limit, first, left>>

EndWalk ==
    /\ at = "answer" /\ page = <<>>
    /\ at' = "end" /\ total' = 0
    /\ UNCHANGED <<list, rows, filter, limit, offset, page, seen, first, left>>

Leave == at = "end" /\ Reset

Next ==
    \/ \E o \in Owner, t \in 1 .. MaxTime : Insert(o, t)
    \/ \E i \in Id : Promote(i)
    \/ \E f \in Filter, l, o \in Asked : o <= 0 /\ Begin(f, l, o)
    \/ Fail \/ SelectPage \/ CountRows \/ NextPage \/ EndWalk \/ Leave

Spec == Init /\ [][Next]_vars

-------------------------------------------------------------------------------
TypeOK ==
    /\ list \in List
    /\ rows \in Seq(Row)
    /\ at \in {"idle", "list", "count", "answer", "end"}
    /\ filter \in Filter
    /\ limit \in 0 .. MaxLimit /\ offset \in Nat
    /\ page \in Seq(Id) /\ total \in Nat
    /\ seen \subseteq Id /\ first \subseteq Id /\ left \subseteq Id

\* Whichever filters are set, their numbered placeholders meet their own
\* arguments: a page has no row that was not asked for, no other user's rows,
\* and no more rows than the limit (query_builder.go:20, order_repository.go:82).
FilterHonoured ==
    /\ Len(page) <= limit
    /\ \A i \in ToSet(page) : Wanted(rows[i], filter) \/ i \in left

\* No row that was there all the time is missed: inserts, also late ones, push
\* rows towards pages that come.  Only a row that leaves the list can hide one,
\* and not more than one.  Rows with equal created_at are in no fixed order and
\* excepted (order_repository.go:82 has no second key).
WalkMissesOneRowPerRemoval ==
    LET untied == {i \in first : \A j \in Id : rows[j].created = rows[i].created => j = i}
    IN  at = "end" =>
            Cardinality({i \in untied : i \notin seen \cup left}) <= Cardinality(left)

\* The count is taken after the page: it covers the rows the client has seen
\* up to this page, but for those that have left since.
TotalCoversPage ==
    at = "answer" /\ list # "history" /\ page # <<>> =>
        offset + Len(page) <= total + Cardinality(left)

===============================================================================
