------------------------------ MODULE Storefront -----------------------------
(***************************************************************************)
(* The cached operations of OrderService and ProductService, as concurrent *)
(* requests over one database and one Redis: cache-aside reads (get, query *)
(* the database, set), and writes that load an entity through the cached   *)
(* findOne, save or remove it, and then delete the cache keys they know.   *)
(*                                                                         *)
(* A row is the request that last wrote each of its columns.  The id of a  *)
(* row that request r creates is r.  Redis may fail at any command, the    *)
(* database at any statement, and a process may die between any two steps. *)
(***************************************************************************)
EXTENDS Naturals, Sequences

CONSTANTS
    Requests,
    Workloads,   \* what the requests may ask together
    OldOrder,    \* an order and a product that exist at the start
    OldProduct,
    Gone,        \* there is no row
    NoEntry      \* there is no cache entry

Kinds == {"order", "product"}

Ids(kind) == Requests \cup {IF kind = "order" THEN OldOrder ELSE OldProduct}

\* The columns that the update DTOs can set; one of CreateProductDto's stands
\* for name and description.
Columns(kind) == IF kind = "order" THEN {"status"} ELSE {"name", "price"}

Rows(kind) == [Columns(kind) -> Requests \cup {OldOrder, OldProduct}]

\* A cache key: the row, page, statistics or featured limit it is for.
Key == [kind : Kinds, of : Requests \cup {OldOrder, OldProduct, "list", "stats",
                                          "featured10", "featured"}]

Key1(kind, of) == [kind |-> kind, of |-> of]

Keys == (UNION {{Key1(kind, of) : of \in Ids(kind) \cup {"list", "stats"}} : kind \in Kinds})
            \cup {Key1("product", of) : of \in {"featured10", "featured"}}

\* create; or a read, an update or a removal that begins with the read of key.
Task == [op : {"create", "read", "update", "remove"}, key : Keys,
         sets : SUBSET UNION {Columns(kind) : kind \in Kinds}]

VARIABLES
    table,      \* the rows of both kinds, by id
    sold,       \* the orders whose creation has lowered the stock
    cache,
    pc,
    task,       \* what each request asks
    found,      \* what it has got so far: one answer per query
    dirty,      \* the columns save() will write
    todo,       \* the keys it has still to delete
    result,     \* what the caller is told
    tainted,    \* ghost: entries that were stored or left behind outdated
    excused     \* ghost: updates that met another writer or a tainted entry

vars == <<table, sold, cache, pc, task, found, dirty, todo, result, tainted, excused>>

-----------------------------------------------------------------------------
(* What is read and cached *)

\* The rows of its own kind that the value of a key shows.
OwnIds(key) == IF key.of \in Ids(key.kind) THEN {key.of} ELSE Ids(key.kind)

\* Orders are read with the products of their items, products with their
\* inventory; statistics only count.
View(key) ==
    [own      |-> [i \in OwnIds(key) |-> table[key.kind][i]],
     products |-> IF key.kind = "order" /\ key.of # "stats" THEN table["product"] ELSE Gone,
     stock    |-> IF key.kind = "product" /\ key.of # "stats" THEN sold ELSE {}]

ProductTable == [Ids("product") -> Rows("product") \cup {Gone}]

Views(key) == [own : [OwnIds(key) -> Rows(key.kind) \cup {Gone}],
               products : ProductTable \cup {Gone},
               stock : SUBSET Requests]

\* What Redis may hold under a key: one answer per query.
Stored(key) == Seq(Views(key))

ASSUME StorefrontAssumption ==
    /\ Workloads \subseteq [Requests -> Task]
    /\ \A w \in Workloads, r \in Requests :
          /\ w[r].sets \subseteq Columns(w[r].key.kind)
          /\ w[r].op = "create" => w[r].key.of = r
          /\ w[r].op \in {"update", "remove"} => w[r].key.of \in Ids(w[r].key.kind)
    /\ OldOrder \notin Requests /\ OldProduct \notin Requests
    /\ {"list", "stats", "featured10", "featured"}
          \cap (Requests \cup {OldOrder, OldProduct}) = {}
    /\ \A key \in Keys : NoEntry \notin [value : Stored(key), ttl : BOOLEAN]

\* getStats counts with three, or four, statements outside any transaction.
Queries(key) ==
    IF key.of # "stats" THEN 1 ELSE IF key.kind = "order" THEN 3 ELSE 4

\* findOne and findAll go on without Redis; getStats and getFeatured reject.
Guarded(key) == key.of \in Ids(key.kind) \cup {"list"}

Redis == INSTANCE RedisCache WITH Values <- Stored

Stale(key) == Redis!Cached(key) /\ \E n \in DOMAIN cache[key].value : cache[key].value[n] # View(key)

\* The same, looking only at rows that the key's own service writes.
Outdated(value, key) == \E n \in DOMAIN value : value[n].own # View(key).own

\* What the value of 'cache:keys:orders:list' names. Nothing stores that key.
RecordedLists == << >>

Lists == <<Key1("product", "featured10"), Key1("product", "stats")>>

\* Mutants: a product's writes leave its own key, or the statistics, alone.
InvalidatedButSingle(t) == IF t.key.kind = "order" THEN <<t.key>> \o RecordedLists ELSE Lists
InvalidatedButStats(t) ==
    CASE t.key.kind = "order"                       -> <<t.key>> \o RecordedLists
      [] t.key.kind = "product" /\ t.op = "create" -> <<Key1("product", "featured10")>>
      [] OTHER                                     -> <<t.key, Key1("product", "featured10")>>

\* The keys that a write deletes, in this order. Creating an order deletes
\* none: the call is commented out.
Invalidated(t) ==
    CASE t.key.kind = "order"                       -> <<t.key>> \o RecordedLists
      [] t.key.kind = "product" /\ t.op = "create" -> Lists
      [] OTHER                                     -> <<t.key>> \o Lists

-----------------------------------------------------------------------------

Kind(r) == task[r].key.kind
Id(r) == task[r].key.of
Row(r) == table[Kind(r)][Id(r)]

Running == {"get", "query", "fill", "diff", "update", "insert", "remove", "create", "invalidate"}

TablesOK ==
    /\ \A kind \in Kinds : table[kind] \in [Ids(kind) -> Rows(kind) \cup {Gone}]
    /\ sold \subseteq Requests

RequestsOK ==
    /\ pc \in [Requests -> {"idle", "done"} \cup Running]
    /\ task \in Workloads
    /\ \A r \in Requests :
          /\ found[r] \in Stored(task[r].key)
          /\ dirty[r] \subseteq Columns(Kind(r))
          /\ todo[r] \in Seq(Keys)
          /\ pc[r] \in {"diff", "update", "insert", "remove"} =>
                found[r] # << >> /\ found[r][1].own[Id(r)] # Gone
    /\ result \in [Requests -> {"none", "ok", "notFound", "failed"}]

GhostsOK ==
    /\ tainted \subseteq {key \in Keys : Redis!Cached(key)}
    /\ excused \subseteq Requests

TypeOK == TablesOK /\ Redis!CacheTypeOK /\ RequestsOK /\ GhostsOK

NewRow(kind, r) == [c \in Columns(kind) |-> r]

Init ==
    /\ table = [kind \in Kinds |-> [i \in Ids(kind) |->
                   IF i \in Requests THEN Gone ELSE NewRow(kind, i)]]
    /\ sold = {}
    /\ Redis!CacheInit
    /\ pc = [r \in Requests |-> "idle"]
    /\ task \in Workloads
    /\ found = [r \in Requests |-> << >>]
    /\ dirty = [r \in Requests |-> {}]
    /\ todo = [r \in Requests |-> << >>]
    /\ result = [r \in Requests |-> "none"]
    /\ tainted = {}
    /\ excused = {}

Goto(r, label) == pc' = [pc EXCEPT ![r] = label]

\* The request is over; it forgets what it read.
Answer(r, what) ==
    /\ Goto(r, "done")
    /\ result' = [result EXCEPT ![r] = what]
    /\ found' = [found EXCEPT ![r] = << >>]
    /\ dirty' = [dirty EXCEPT ![r] = {}]
    /\ todo' = [todo EXCEPT ![r] = << >>]

NoAnswer == UNCHANGED <<result, found, dirty, todo>>

NoWrite == UNCHANGED <<table, sold>>

\* Entries under the given keys stay although their rows have changed.
LeftBehind(keys) == tainted' = tainted \cup {key \in keys : Redis!Cached(key)}

ElementsOf(seq) == {seq[n] : n \in DOMAIN seq}

IsWriter(r) == task[r].op \in {"update", "remove"}

Rivals(r) == {s \in Requests \ {r} :
                IsWriter(s) /\ task[s].key = task[r].key /\ pc[s] \in Running}

Start(r) ==
    /\ pc[r] = "idle"
    /\ Goto(r, IF task[r].op = "create" THEN "create" ELSE "get")
    /\ excused' = IF IsWriter(r) /\ Rivals(r) # {} THEN excused \cup {r} \cup Rivals(r)
                                                   ELSE excused
    /\ NoWrite /\ NoAnswer
    /\ UNCHANGED <<cache, task, tainted>>

-----------------------------------------------------------------------------
(* Cache-aside reads *)

\* Reads answer; update and remove go on with what findOne returned.
NextAfterFind(r) == IF task[r].op = "update" THEN "diff" ELSE "remove"

GetHit(r) ==
    /\ pc[r] = "get" /\ Redis!Cached(task[r].key)
    /\ \/ task[r].op = "read" /\ Answer(r, "ok")
       \/ /\ task[r].op # "read"
          /\ found' = [found EXCEPT ![r] = cache[task[r].key].value]
          /\ Goto(r, NextAfterFind(r))
          /\ UNCHANGED <<result, dirty, todo>>
    /\ excused' = IF task[r].key \in tainted THEN excused \cup {r} ELSE excused
    /\ NoWrite
    /\ UNCHANGED <<cache, task, tainted>>

GetMiss(r) ==
    /\ pc[r] = "get" /\ ~Redis!Cached(task[r].key)
    /\ Goto(r, "query")
    /\ NoWrite /\ NoAnswer
    /\ UNCHANGED <<cache, task, tainted, excused>>

GetFails(r) ==
    /\ pc[r] = "get"
    /\ \/ Guarded(task[r].key) /\ Goto(r, "query") /\ NoAnswer
       \/ ~Guarded(task[r].key) /\ Answer(r, "failed")
    /\ NoWrite
    /\ UNCHANGED <<cache, task, tainted, excused>>

\* Mutant: an entity that is not there is returned.
QueryUnchecked(r) ==
    /\ pc[r] = "query"
    /\ found' = [found EXCEPT ![r] = Append(@, View(task[r].key))]
    /\ Goto(r, IF Len(found'[r]) = Queries(task[r].key) THEN "fill" ELSE "query")
    /\ UNCHANGED <<result, dirty, todo>>
    /\ NoWrite
    /\ UNCHANGED <<cache, task, tainted, excused>>

\* NotFoundException, or one more result.
Query(r) ==
    /\ pc[r] = "query"
    /\ \/ Id(r) \in Ids(Kind(r)) /\ Row(r) = Gone /\ Answer(r, "notFound")
       \/ /\ Id(r) \in Ids(Kind(r)) => Row(r) # Gone
          /\ found' = [found EXCEPT ![r] = Append(@, View(task[r].key))]
          /\ Goto(r, IF Len(found'[r]) = Queries(task[r].key) THEN "fill" ELSE "query")
          /\ UNCHANGED <<result, dirty, todo>>
    /\ NoWrite
    /\ UNCHANGED <<cache, task, tainted, excused>>

Found(r) ==
    \/ task[r].op = "read" /\ Answer(r, "ok")
    \/ task[r].op # "read" /\ Goto(r, NextAfterFind(r)) /\ NoAnswer

\* Mutant: the entry gets no TTL.
StoreForever(key, value) == Redis!Set(key, value, FALSE)

\* set() with { ttl: 60 }, 120, 180 or 300, at every call.
Store(key, value) == Redis!Set(key, value, TRUE)

Fill(r) ==
    /\ pc[r] = "fill"
    /\ Store(task[r].key, found[r])
    /\ tainted' = IF Outdated(found[r], task[r].key) THEN tainted \cup {task[r].key}
                                                      ELSE tainted \ {task[r].key}
    /\ Found(r)
    /\ NoWrite
    /\ UNCHANGED <<task, excused>>

FillFails(r) ==
    /\ pc[r] = "fill"
    /\ \/ Guarded(task[r].key) /\ Found(r)
       \/ ~Guarded(task[r].key) /\ Answer(r, "failed")
    /\ NoWrite
    /\ UNCHANGED <<cache, task, tainted, excused>>

-----------------------------------------------------------------------------
(* Writes *)

\* Object.assign(entity, dto), on what findOne returned.
Entity(r) == [c \in Columns(Kind(r)) |->
                IF c \in task[r].sets THEN r ELSE found[r][1].own[Id(r)][c]]

\* save() looks the row up and compares: an INSERT when it is gone, an UPDATE
\* of the columns that differ, or nothing.
Diff(r) ==
    /\ pc[r] = "diff"
    /\ \/ Row(r) = Gone /\ Goto(r, "insert") /\ NoAnswer
       \/ /\ Row(r) # Gone /\ Row(r) = Entity(r)
          /\ Goto(r, "invalidate")
          /\ todo' = [todo EXCEPT ![r] = Invalidated(task[r])]
          /\ UNCHANGED <<result, found, dirty>>
       \/ /\ Row(r) # Gone /\ Row(r) # Entity(r)
          /\ dirty' = [dirty EXCEPT ![r] = {c \in Columns(Kind(r)) : Row(r)[c] # Entity(r)[c]}]
          /\ Goto(r, "update")
          /\ UNCHANGED <<result, found, todo>>
    /\ NoWrite
    /\ UNCHANGED <<cache, task, tainted, excused>>

\* The statement was run; its answer arrives, or is lost and nothing is deleted.
Written(r) ==
    \/ /\ Goto(r, "invalidate")
       /\ todo' = [todo EXCEPT ![r] = Invalidated(task[r])]
       /\ UNCHANGED <<result, found, dirty, tainted>>
    \/ /\ Answer(r, "failed")
       /\ LeftBehind(ElementsOf(Invalidated(task[r])))

Put(r, row) == table' = [table EXCEPT ![Kind(r)][Id(r)] = row]

UpdateRow(r) ==
    /\ pc[r] = "update"
    /\ Put(r, IF Row(r) = Gone THEN Gone
              ELSE [c \in Columns(Kind(r)) |-> IF c \in dirty[r] THEN Entity(r)[c] ELSE Row(r)[c]])
    /\ Written(r)
    /\ UNCHANGED <<sold, cache, task, excused>>

\* The other disjunct: another save() was faster, the primary key is taken.
InsertRow(r) ==
    /\ pc[r] = "insert"
    /\ \/ Row(r) = Gone /\ Put(r, Entity(r)) /\ Written(r)
       \/ Row(r) # Gone /\ Answer(r, "failed") /\ UNCHANGED <<table, tainted>>
    /\ UNCHANGED <<sold, cache, task, excused>>

RemoveRow(r) ==
    /\ pc[r] = "remove"
    /\ Put(r, Gone)
    /\ Written(r)
    /\ UNCHANGED <<sold, cache, task, excused>>

CreateProduct(r) ==
    /\ pc[r] = "create" /\ Kind(r) = "product"
    /\ Put(r, NewRow("product", r))
    /\ Written(r)
    /\ UNCHANGED <<sold, cache, task, excused>>

CreateOrder(r) ==
    /\ pc[r] = "create" /\ Kind(r) = "order"
    /\ Put(r, NewRow("order", r))
    /\ sold' = sold \cup {r}
    /\ Answer(r, "ok") \/ Answer(r, "failed")
    /\ UNCHANGED <<cache, task, tainted, excused>>

\* The next key is deleted.
Invalidate(r) ==
    /\ pc[r] = "invalidate"
    /\ Redis!Delete(Head(todo[r]))
    /\ tainted' = tainted \ {Head(todo[r])}
    /\ \/ Len(todo[r]) = 1 /\ Answer(r, "ok")
       \/ /\ Len(todo[r]) > 1
          /\ todo' = [todo EXCEPT ![r] = Tail(@)]
          /\ UNCHANGED <<pc, result, found, dirty>>
    /\ NoWrite
    /\ UNCHANGED <<task, excused>>

\* A deletion fails: the rest is skipped, the failure logged.
InvalidateFails(r) ==
    /\ pc[r] = "invalidate"
    /\ LeftBehind(ElementsOf(todo[r]))
    /\ Answer(r, "ok")
    /\ NoWrite
    /\ UNCHANGED <<cache, task, excused>>

-----------------------------------------------------------------------------

\* A statement fails without effect.
DbError(r) ==
    /\ pc[r] \in {"query", "diff", "update", "insert", "remove", "create"}
    /\ Answer(r, "failed")
    /\ NoWrite
    /\ UNCHANGED <<cache, task, tainted, excused>>

Crash(r) ==
    /\ pc[r] \in Running
    /\ Answer(r, "none")
    /\ LeftBehind(ElementsOf(todo[r]))
    /\ NoWrite
    /\ UNCHANGED <<cache, task, excused>>

Expire(key) ==
    /\ Redis!Expire(key)
    /\ tainted' = tainted \ {key}
    /\ NoWrite /\ NoAnswer
    /\ UNCHANGED <<pc, task, excused>>

Progress(r) ==
    \/ Start(r) \/ GetHit(r) \/ GetMiss(r) \/ GetFails(r) \/ Query(r) \/ Fill(r) \/ FillFails(r)
    \/ Diff(r) \/ UpdateRow(r) \/ InsertRow(r) \/ RemoveRow(r)
    \/ CreateProduct(r) \/ CreateOrder(r) \/ Invalidate(r) \/ InvalidateFails(r)

Next ==
    \/ \E r \in Requests : Progress(r) \/ DbError(r) \/ Crash(r)
    \/ \E key \in Keys : Expire(key)

\* Redis drops entries when their TTL has run out.
Fairness == \A key \in Keys : WF_vars(Expire(key))

Spec == Init /\ [][Next]_vars /\ Fairness

-----------------------------------------------------------------------------
(* Properties *)

\* The keys that some write of OrderService or ProductService deletes.  Pages of
\* lists, the order statistics and featured lists of another length than 10
\* are not among them: only their TTL ends them (StaleGoes).
DeletedKeys == {key \in Keys : key.of \in Ids(key.kind)} \cup ElementsOf(Lists)

\* The cache is coherent but for known reasons: an entry that invalidation is
\* responsible for and that misses a write was stored by a read that began
\* before the write, or was left behind by a failure, or a running request is
\* about to delete it.
StaleNeedsReason ==
    \A key \in DeletedKeys :
        Redis!Cached(key) /\ Outdated(cache[key].value, key) =>
            key \in tainted \/ \E r \in Requests : key \in ElementsOf(todo[r])

\* update() of OrderService and ProductService saves a whole entity, taken
\* from the cache if it is there. An update that overlaps no other writer of
\* its row and met no tainted entry still changes nothing but the columns of
\* its DTO, and never brings a removed row back.
SerialUpdatesSurvive ==
    [][\A r \in Requests \ excused :
          pc[r] \in {"update", "insert"} /\ Row(r) # table'[Kind(r)][Id(r)] =>
             pc'[r] = pc[r] \/
             /\ Row(r) # Gone
             /\ \A c \in Columns(Kind(r)) \ task[r].sets :
                   table'[Kind(r)][Id(r)][c] = Row(r)[c]]_vars

\* Nothing stale is served for ever, lists and other products' data included:
\* every entry has a TTL.
StaleGoes == \A key \in Keys : Stale(key) ~> ~Stale(key)

\* "Delete all list caches" (the comment at order.service.ts:236): when the
\* invalidation of an order has run to its end, no page of orders is left that
\* was read before the order changed.
ListsInvalidated ==
    [][\A r \in Requests :
          Kind(r) = "order" /\ Invalidate(r) /\ pc'[r] = "done" =>
             LET pages == Key1("order", "list")
             IN  Redis!Cached(pages) /\ Outdated(cache[pages].value, pages)
                    => pages \in tainted]_vars

=============================================================================
