--------------------------- MODULE StorefrontProofs ----------------------------
(* What Storefront guarantees for all requests, workloads, orders and        *)
(* products.                                                                  *)
EXTENDS Storefront, SequenceTheorems, TLAPS

-----------------------------------------------------------------------------
(* Keys and tasks *)

Singles == {key \in Keys : key.of \in Ids(key.kind)}

LEMMA KeyFields ==
  ASSUME NEW key \in Keys
  PROVE  /\ key.kind \in Kinds /\ key = Key1(key.kind, key.of)
         /\ key.of \in Ids(key.kind) \cup {"list", "stats", "featured10", "featured"}
<1>1. CASE \E kind \in Kinds : key \in {Key1(kind, of) : of \in Ids(kind) \cup {"list", "stats"}}
  <2>1. PICK kind \in Kinds : key \in {Key1(kind, of) : of \in Ids(kind) \cup {"list", "stats"}}
    BY <1>1
  <2>2. PICK of \in Ids(kind) \cup {"list", "stats"} : key = Key1(kind, of)
    BY <2>1
  <2> QED
    BY <2>2 DEF Key1
<1>2. CASE key \in {Key1("product", of) : of \in {"featured10", "featured"}}
  <2>1. PICK of \in {"featured10", "featured"} : key = Key1("product", of)
    BY <1>2
  <2> QED
    BY <2>1 DEF Key1, Kinds
<1> QED
  BY <1>1, <1>2 DEF Keys

LEMMA SomeKeys ==
  /\ \A kind \in Kinds : \A id \in Ids(kind) : Key1(kind, id) \in Singles
  /\ \A kind \in Kinds : Key1(kind, "list") \in Keys /\ Key1(kind, "stats") \in Keys
  /\ Key1("product", "featured10") \in Keys /\ Key1("product", "featured") \in Keys
<1>1. \A kind \in Kinds : \A of \in Ids(kind) \cup {"list", "stats"} : Key1(kind, of) \in Keys
  BY DEF Keys
<1>2. \A of \in {"featured10", "featured"} : Key1("product", of) \in Keys
  BY DEF Keys
<1>3. \A kind, of : Key1(kind, of).kind = kind /\ Key1(kind, of).of = of
  BY DEF Key1
<1> QED
  BY <1>1, <1>2, <1>3 DEF Singles

\* No id is the name of a list.
LEMMA NamesAreNoIds ==
  ASSUME NEW kind \in Kinds
  PROVE  {"list", "stats", "featured10", "featured"} \cap Ids(kind) = {}
BY StorefrontAssumption DEF Ids

LEMMA ListElements ==
  /\ Lists \in Seq(Keys) /\ Len(Lists) = 2
  /\ ElementsOf(Lists) = {Key1("product", "featured10"), Key1("product", "stats")}
BY SomeKeys DEF Lists, Kinds, ElementsOf

Ask(t) ==
    /\ t.op \in {"create", "read", "update", "remove"}
    /\ t.key \in Keys
    /\ t.sets \subseteq Columns(t.key.kind)
    /\ t.op \in {"create", "update", "remove"} => t.key \in Singles

LEMMA TaskFields ==
  ASSUME task \in Workloads, NEW r \in Requests
  PROVE  /\ Ask(task[r]) /\ Kind(r) \in Kinds /\ task[r].key = Key1(Kind(r), Id(r))
         /\ task[r].op = "create" => Id(r) = r
         /\ task[r].op \in {"create", "update", "remove"} => Id(r) \in Ids(Kind(r))
<1>1. task \in [Requests -> Task]
  BY StorefrontAssumption
<1>2. task[r].op \in {"create", "read", "update", "remove"} /\ task[r].key \in Keys
  BY <1>1 DEF Task
<1>3. /\ task[r].sets \subseteq Columns(task[r].key.kind)
      /\ task[r].op = "create" => task[r].key.of = r
      /\ task[r].op \in {"update", "remove"} => task[r].key.of \in Ids(task[r].key.kind)
  BY StorefrontAssumption
<1>4. r \in Ids(task[r].key.kind)
  BY DEF Ids
<1> QED
  BY <1>2, <1>3, <1>4, KeyFields DEF Ask, Singles, Kind, Id

\* A write deletes its own key, and a product's the two lists it knows.
Deletes(t) ==
    (IF t.key.kind = "product" /\ t.op = "create" THEN {} ELSE {t.key})
    \cup (IF t.key.kind = "product" THEN ElementsOf(Lists) ELSE {})

LEMMA PrefixElements ==
  ASSUME NEW key \in Keys, NEW seq \in Seq(Keys)
  PROVE  /\ <<key>> \o seq \in Seq(Keys) /\ <<key>> \o seq # << >>
         /\ ElementsOf(<<key>> \o seq) = {key} \cup ElementsOf(seq)
<1>1. <<key>> \in Seq(Keys) /\ Len(<<key>>) = 1 /\ <<key>>[1] = key
  OBVIOUS
<1> DEFINE all == <<key>> \o seq
<1>2. /\ all \in Seq(Keys) /\ Len(all) = 1 + Len(seq)
      /\ \A n \in 1 .. 1 + Len(seq) : all[n] = IF n <= 1 THEN <<key>>[n] ELSE seq[n - 1]
  BY <1>1, ConcatProperties
<1>3. Len(seq) \in Nat /\ DOMAIN seq = 1 .. Len(seq) /\ DOMAIN all = 1 .. 1 + Len(seq)
  BY <1>2, LenProperties
<1>4. all[1] = key
  BY <1>1, <1>2, <1>3
<1>5. \A n \in DOMAIN seq : n + 1 \in DOMAIN all /\ all[n + 1] = seq[n]
  BY <1>2, <1>3
<1>6. \A n \in DOMAIN all : n # 1 => n - 1 \in DOMAIN seq /\ all[n] = seq[n - 1]
  BY <1>2, <1>3
<1>7. 1 \in DOMAIN all
  BY <1>3
<1>8. all # << >>
  BY <1>2, <1>3
<1>9. ElementsOf(all) = {key} \cup ElementsOf(seq)
  <2> HIDE DEF all
  <2> QED
    BY <1>4, <1>5, <1>6, <1>7 DEF ElementsOf
<1> QED
  BY <1>2, <1>8, <1>9

LEMMA InvalidatedKeys ==
  ASSUME NEW t, Ask(t), t.op # "read"
  PROVE  /\ Invalidated(t) \in Seq(Keys) /\ Invalidated(t) # << >>
         /\ ElementsOf(Invalidated(t)) = Deletes(t)
<1>1. RecordedLists \in Seq(Keys) /\ ElementsOf(RecordedLists) = {}
  BY DEF RecordedLists, ElementsOf
<1>2. t.key \in Keys /\ t.key.kind \in Kinds
  BY KeyFields DEF Ask
<1>3. CASE t.key.kind = "order"
  <2>1. Invalidated(t) = <<t.key>> \o RecordedLists
    BY <1>3 DEF Invalidated
  <2>2. Deletes(t) = {t.key}
    BY <1>3 DEF Deletes
  <2> QED
    BY <1>1, <1>2, <2>1, <2>2, PrefixElements
<1>4. CASE t.key.kind = "product" /\ t.op = "create"
  <2>1. Lists # << >>
    BY DEF Lists
  <2> QED
    BY <1>4, <2>1, ListElements DEF Invalidated, Deletes
<1>5. CASE t.key.kind = "product" /\ t.op # "create"
  <2>1. Invalidated(t) = <<t.key>> \o Lists
    BY <1>5 DEF Invalidated
  <2>2. Deletes(t) = {t.key} \cup ElementsOf(Lists)
    BY <1>5 DEF Deletes
  <2> QED
    BY <1>2, <2>1, <2>2, PrefixElements, ListElements
<1> QED
  BY <1>2, <1>3, <1>4, <1>5 DEF Kinds

-----------------------------------------------------------------------------
(* Types *)

IsFcn(f, S) == f = [x \in S |-> f[x]]

OwnTable(kind) == [Ids(kind) -> Rows(kind) \cup {Gone}]

TablesInv == TablesOK /\ IsFcn(table, Kinds)

\* What is stored of a single order or product shows a row that was there.
Holds(value, key) == value # << >> /\ (key \in Singles => value[1].own[key.of] # Gone)

CacheInv ==
    /\ Redis!CacheTypeOK /\ IsFcn(cache, Keys)
    /\ \A key \in Keys : Redis!Cached(key) => Holds(cache[key].value, key)

\* Which tasks get where.
PcFits(r) ==
    /\ pc[r] \in {"get", "query", "fill"} => task[r].op # "create"
    /\ pc[r] \in {"diff", "update", "insert"} => task[r].op = "update"
    /\ pc[r] = "remove" => task[r].op = "remove"
    /\ pc[r] = "create" => task[r].op = "create"

\* What a request has in hand.
HandFits(r) ==
    /\ found[r] \in Stored(task[r].key)
    /\ pc[r] \in {"idle", "get", "create", "done"} => found[r] = << >>
    /\ pc[r] = "query" /\ task[r].key \in Singles => found[r] = << >>
    /\ pc[r] \in {"fill", "diff", "update", "insert", "remove"} => Holds(found[r], task[r].key)
    /\ dirty[r] \subseteq Columns(Kind(r))

\* Only a write that has been made has keys to delete.
TodoFits(r) ==
    /\ todo[r] \in Seq(Keys)
    /\ pc[r] = "invalidate" <=> todo[r] # << >>
    /\ pc[r] = "invalidate" => task[r].op # "read" /\ (task[r].op = "create" => Kind(r) = "product")
    /\ ElementsOf(todo[r]) \subseteq Deletes(task[r])

RequestFits(r) == PcFits(r) /\ HandFits(r) /\ TodoFits(r)

RequestsInv ==
    /\ pc \in [Requests -> {"idle", "done"} \cup Running]
    /\ task \in Workloads
    /\ IsFcn(found, Requests) /\ IsFcn(dirty, Requests) /\ IsFcn(todo, Requests)
    /\ \A r \in Requests : RequestFits(r)
    /\ result \in [Requests -> {"none", "ok", "notFound", "failed"}]

TypeInv == TablesInv /\ CacheInv /\ RequestsInv /\ GhostsOK

LEMMA NoElements == ElementsOf(<< >>) = {}
BY DEF ElementsOf

LEMMA NewRowTyped ==
  ASSUME NEW kind \in Kinds, NEW r \in Requests \cup {OldOrder, OldProduct}
  PROVE  NewRow(kind, r) \in Rows(kind)
BY DEF NewRow, Rows

LEMMA TypeInit == Init => TypeInv
<1> SUFFICES ASSUME Init PROVE TypeInv
  OBVIOUS
<1> USE DEF Init
<1>1. \A kind \in Kinds : table[kind] \in OwnTable(kind)
  <2> SUFFICES ASSUME NEW kind \in Kinds PROVE table[kind] \in OwnTable(kind)
    OBVIOUS
  <2>1. \A i \in Ids(kind) : NewRow(kind, i) \in Rows(kind)
    BY NewRowTyped DEF Ids
  <2>2. table[kind] = [i \in Ids(kind) |-> IF i \in Requests THEN Gone ELSE NewRow(kind, i)]
    OBVIOUS
  <2> QED
    BY <2>1, <2>2 DEF OwnTable
<1>2. TablesInv
  BY <1>1 DEF TablesInv, TablesOK, OwnTable, IsFcn
<1>3. CacheInv
  BY DEF CacheInv, IsFcn, Redis!CacheTypeOK, Redis!CacheInit, Redis!Cached, Redis!Entries
<1>4. \A r \in Requests : RequestFits(r)
  <2> SUFFICES ASSUME NEW r \in Requests PROVE RequestFits(r)
    OBVIOUS
  <2>1. pc[r] = "idle" /\ found[r] = << >> /\ dirty[r] = {} /\ todo[r] = << >>
    OBVIOUS
  <2>2. << >> \in Seq(Views(task[r].key)) /\ << >> \in Seq(Keys)
    OBVIOUS
  <2> QED
    BY <2>1, <2>2, NoElements DEF RequestFits, PcFits, HandFits, TodoFits, Stored
<1>5. RequestsInv
  BY <1>4 DEF RequestsInv, IsFcn
<1> QED
  BY <1>2, <1>3, <1>5 DEF TypeInv, GhostsOK

LEMMA HoldingIsTyped ==
  ASSUME RequestsInv, NEW r \in Requests
  PROVE  /\ found[r] \in Stored(task[r].key) /\ dirty[r] \subseteq Columns(Kind(r))
         /\ todo[r] \in Seq(Keys)
         /\ pc[r] \in {"diff", "update", "insert", "remove"} =>
               found[r] # << >> /\ found[r][1].own[Id(r)] # Gone
<1>1. RequestFits(r) /\ task \in Workloads
  BY DEF RequestsInv
<1>2. Ask(task[r])
  BY <1>1, TaskFields
<1> QED
  BY <1>1, <1>2 DEF RequestFits, PcFits, HandFits, TodoFits, Holds, Ask, Id

LEMMA TypeInvIsEnough == TypeInv => TypeOK
BY HoldingIsTyped DEF TypeInv, TypeOK, TablesInv, CacheInv, RequestsInv, RequestsOK

Labels == {"idle", "done"} \cup Running

\* A step that moves request r only.
Moves(r) ==
    /\ task' = task
    /\ \E label \in Labels : pc' = [pc EXCEPT ![r] = label]
    /\ IsFcn(found', Requests) /\ IsFcn(dirty', Requests) /\ IsFcn(todo', Requests)
    /\ \A s \in Requests \ {r} : found'[s] = found[s] /\ dirty'[s] = dirty[s] /\ todo'[s] = todo[s]
    /\ result' \in [Requests -> {"none", "ok", "notFound", "failed"}]

LEMMA MovesTyped ==
  ASSUME RequestsInv, NEW r \in Requests, Moves(r), RequestFits(r)'
  PROVE  RequestsInv'
<1>1. ASSUME NEW s \in Requests \ {r} PROVE RequestFits(s)'
  <2>1. /\ pc'[s] = pc[s] /\ task'[s] = task[s] /\ found'[s] = found[s] /\ dirty'[s] = dirty[s]
        /\ todo'[s] = todo[s]
    BY DEF Moves, RequestsInv
  <2>2. RequestFits(s)
    BY DEF RequestsInv
  <2>3. /\ PcFits(s)' <=> PcFits(s)
        /\ HandFits(s)' <=> HandFits(s)
        /\ TodoFits(s)' <=> TodoFits(s)
    BY <2>1 DEF PcFits, HandFits, TodoFits, Kind
  <2> QED
    BY <2>2, <2>3 DEF RequestFits
<1>2. pc' \in [Requests -> Labels] /\ task' \in Workloads
  BY DEF Moves, RequestsInv, Labels
<1> QED
  BY <1>1, <1>2 DEF Moves, RequestsInv, Labels

LEMMA GotoMoves ==
  ASSUME RequestsInv, NEW r \in Requests, NEW label \in Labels, Goto(r, label), NoAnswer,
         task' = task
  PROVE  /\ Moves(r) /\ pc'[r] = label
         /\ found'[r] = found[r] /\ dirty'[r] = dirty[r] /\ todo'[r] = todo[r]
BY DEF Moves, RequestsInv, Goto, NoAnswer, Labels, IsFcn

LEMMA AnswerMoves ==
  ASSUME RequestsInv, NEW r \in Requests, NEW what \in {"none", "ok", "notFound", "failed"},
         Answer(r, what), task' = task
  PROVE  /\ Moves(r) /\ pc'[r] = "done"
         /\ found'[r] = << >> /\ dirty'[r] = {} /\ todo'[r] = << >>
<1>1. /\ IsFcn(found', Requests) /\ found'[r] = << >>
      /\ \A s \in Requests \ {r} : found'[s] = found[s]
  BY DEF RequestsInv, Answer, IsFcn
<1>2. /\ IsFcn(dirty', Requests) /\ dirty'[r] = {}
      /\ \A s \in Requests \ {r} : dirty'[s] = dirty[s]
  BY DEF RequestsInv, Answer, IsFcn
<1>3. /\ IsFcn(todo', Requests) /\ todo'[r] = << >>
      /\ \A s \in Requests \ {r} : todo'[s] = todo[s]
  BY DEF RequestsInv, Answer, IsFcn
<1>4. result' \in [Requests -> {"none", "ok", "notFound", "failed"}]
  BY DEF RequestsInv, Answer
<1>5. pc' = [pc EXCEPT ![r] = "done"] /\ "done" \in Labels /\ pc'[r] = "done"
  BY DEF RequestsInv, Answer, Goto, Labels
<1> QED
  BY <1>1, <1>2, <1>3, <1>4, <1>5 DEF Moves

LEMMA AnswerTyped ==
  ASSUME RequestsInv, NEW r \in Requests, NEW what \in {"none", "ok", "notFound", "failed"},
         Answer(r, what), task' = task
  PROVE  RequestsInv'
<1>1. /\ Moves(r) /\ pc'[r] = "done"
      /\ found'[r] = << >> /\ dirty'[r] = {} /\ todo'[r] = << >>
  BY AnswerMoves
<1>2. PcFits(r)'
  BY <1>1 DEF PcFits
<1>3. HandFits(r)'
  BY <1>1 DEF HandFits, Stored
<1>4. TodoFits(r)'
  BY <1>1, NoElements DEF TodoFits
<1> QED
  BY <1>1, <1>2, <1>3, <1>4, MovesTyped DEF RequestFits

LEMMA ViewTyped ==
  ASSUME TablesInv, NEW key \in Keys
  PROVE  /\ View(key) \in Views(key)
         /\ key \in Singles => View(key).own = [i \in {key.of} |-> table[key.kind][i]]
<1>1. key.kind \in Kinds /\ "product" \in Kinds
  BY KeyFields DEF Kinds
<1>2. OwnIds(key) \subseteq Ids(key.kind) /\ (key \in Singles => OwnIds(key) = {key.of})
  BY DEF OwnIds, Singles
<1>3. table["product"] \in ProductTable /\ table[key.kind] \in OwnTable(key.kind)
  BY <1>1 DEF TablesInv, TablesOK, ProductTable, OwnTable
<1>4. [i \in OwnIds(key) |-> table[key.kind][i]] \in [OwnIds(key) -> Rows(key.kind) \cup {Gone}]
  BY <1>2, <1>3 DEF OwnTable
<1>5. sold \in SUBSET Requests
  BY DEF TablesInv, TablesOK
<1> QED
  BY <1>2, <1>3, <1>4, <1>5 DEF View, Views

LEMMA CacheTyped ==
  ASSUME CacheInv, NEW key \in Keys, Redis!Cached(key)
  PROVE  /\ cache[key].value \in Stored(key) /\ cache[key].ttl \in BOOLEAN
         /\ Holds(cache[key].value, key)
BY DEF CacheInv, Redis!CacheTypeOK, Redis!Entries, Redis!Cached

LEMMA RequestFacts ==
  ASSUME RequestsInv, NEW r \in Requests
  PROVE  /\ Ask(task[r]) /\ task[r].key \in Keys /\ Kind(r) \in Kinds
         /\ task[r].key = Key1(Kind(r), Id(r))
         /\ pc[r] \in Labels /\ RequestFits(r)
<1>1. task \in Workloads
  BY DEF RequestsInv
<1> QED
  BY <1>1, TaskFields DEF RequestsInv, Ask, Labels

LEMMA StartTyped ==
  ASSUME RequestsInv, NEW r \in Requests, Start(r)
  PROVE  RequestsInv'
<1> DEFINE label == IF task[r].op = "create" THEN "create" ELSE "get"
<1>1. label \in Labels
  BY DEF Labels, Running
<1>2. /\ Moves(r) /\ pc'[r] = label /\ task' = task
      /\ found'[r] = found[r] /\ dirty'[r] = dirty[r] /\ todo'[r] = todo[r]
  BY <1>1, GotoMoves DEF Start
<1>3. pc[r] = "idle" /\ RequestFits(r)
  BY DEF Start, RequestsInv
<1>4. RequestFits(r)'
  BY <1>2, <1>3 DEF RequestFits, PcFits, HandFits, TodoFits, Kind
<1> QED
  BY <1>2, <1>4, MovesTyped

\* A request that has read goes on.
LEMMA FoundTyped ==
  ASSUME RequestsInv, NEW r \in Requests, pc[r] = "fill", Found(r), task' = task
  PROVE  RequestsInv'
<1>1. CASE Answer(r, "ok")
  BY <1>1, AnswerTyped
<1>2. CASE task[r].op # "read" /\ Goto(r, NextAfterFind(r)) /\ NoAnswer
  <2>1. NextAfterFind(r) \in Labels
    BY DEF NextAfterFind, Labels, Running
  <2>2. /\ Moves(r) /\ pc'[r] = NextAfterFind(r)
        /\ found'[r] = found[r] /\ dirty'[r] = dirty[r] /\ todo'[r] = todo[r]
    BY <1>2, <2>1, GotoMoves
  <2>3. RequestFits(r) /\ task[r].op \in {"update", "remove"}
    BY <1>2, RequestFacts DEF RequestFits, PcFits, Ask
  <2>4. RequestFits(r)'
    BY <2>2, <2>3 DEF NextAfterFind, RequestFits, PcFits, HandFits, TodoFits, Kind
  <2> QED
    BY <2>2, <2>4, MovesTyped
<1> QED
  BY <1>1, <1>2 DEF Found

LEMMA GetTyped ==
  ASSUME RequestsInv, CacheInv, NEW r \in Requests, GetHit(r) \/ GetMiss(r) \/ GetFails(r)
  PROVE  RequestsInv'
<1>1. task' = task /\ pc[r] = "get" /\ RequestFits(r) /\ task[r].key \in Keys
  BY RequestFacts DEF GetHit, GetMiss, GetFails
<1>2. CASE Answer(r, "ok") \/ Answer(r, "failed")
  BY <1>1, <1>2, AnswerTyped
<1>3. CASE Goto(r, "query") /\ NoAnswer
  <2>1. "query" \in Labels
    BY DEF Labels, Running
  <2>2. /\ Moves(r) /\ pc'[r] = "query"
        /\ found'[r] = found[r] /\ dirty'[r] = dirty[r] /\ todo'[r] = todo[r]
    BY <1>1, <1>3, <2>1, GotoMoves
  <2>3. RequestFits(r)'
    BY <1>1, <2>2 DEF RequestFits, PcFits, HandFits, TodoFits, Kind
  <2> QED
    BY <2>2, <2>3, MovesTyped
<1>4. CASE /\ Redis!Cached(task[r].key) /\ task[r].op # "read"
           /\ found' = [found EXCEPT ![r] = cache[task[r].key].value]
           /\ Goto(r, NextAfterFind(r))
           /\ UNCHANGED <<result, dirty, todo>>
  <2>1. NextAfterFind(r) \in Labels
    BY DEF NextAfterFind, Labels, Running
  <2>2. /\ Moves(r) /\ pc'[r] = NextAfterFind(r)
        /\ found'[r] = cache[task[r].key].value /\ dirty'[r] = dirty[r] /\ todo'[r] = todo[r]
    BY <1>1, <1>4, <2>1 DEF RequestsInv, Moves, Goto, IsFcn, Labels
  <2>3. cache[task[r].key].value \in Stored(task[r].key) /\ Holds(cache[task[r].key].value, task[r].key)
    BY <1>1, <1>4, CacheTyped
  <2>4. task[r].op \in {"update", "remove"}
    BY <1>1, <1>4, RequestFacts DEF RequestFits, PcFits, Ask
  <2>5. RequestFits(r)'
    BY <1>1, <2>2, <2>3, <2>4 DEF NextAfterFind, RequestFits, PcFits, HandFits, TodoFits, Kind
  <2> QED
    BY <2>2, <2>5, MovesTyped
<1> QED
  BY <1>2, <1>3, <1>4 DEF GetHit, GetMiss, GetFails

LEMMA QueryTyped ==
  ASSUME RequestsInv, TablesInv, NEW r \in Requests, Query(r)
  PROVE  RequestsInv'
<1>1. task' = task /\ pc[r] = "query" /\ RequestFits(r) /\ task[r].key \in Keys
  BY RequestFacts DEF Query
<1>2. CASE Answer(r, "notFound")
  BY <1>1, <1>2, AnswerTyped
<1>3. CASE /\ Id(r) \in Ids(Kind(r)) => Row(r) # Gone
           /\ found' = [found EXCEPT ![r] = Append(@, View(task[r].key))]
           /\ Goto(r, IF Len(found'[r]) = Queries(task[r].key) THEN "fill" ELSE "query")
           /\ UNCHANGED <<result, dirty, todo>>
  <2> DEFINE label == IF Len(found'[r]) = Queries(task[r].key) THEN "fill" ELSE "query"
             more == Append(found[r], View(task[r].key))
  <2>1. label \in Labels
    BY DEF Labels, Running
  <2>2. /\ Moves(r) /\ pc'[r] = label
        /\ found'[r] = more /\ dirty'[r] = dirty[r] /\ todo'[r] = todo[r]
    BY <1>1, <1>3, <2>1 DEF RequestsInv, Moves, Goto, IsFcn, Labels
  <2>3. found[r] \in Seq(Views(task[r].key)) /\ View(task[r].key) \in Views(task[r].key)
    BY <1>1, ViewTyped DEF RequestFits, HandFits, Stored
  <2>4. more \in Stored(task[r].key) /\ more # << >> /\ Len(more) = Len(found[r]) + 1
    BY <2>3 DEF Stored
  <2>5. CASE task[r].key \in Singles
    <3>1. found[r] = << >>
      BY <1>1, <2>5 DEF RequestFits, HandFits
    <3>2. more[1] = View(task[r].key) /\ Len(more) = 1
      BY <2>3, <3>1
    <3>3. task[r].key.of # "stats" /\ Id(r) \in Ids(Kind(r))
      BY <1>1, <2>5, KeyFields, NamesAreNoIds DEF Singles, Id, Kind
    <3>4. pc'[r] = "fill"
      BY <2>2, <3>2, <3>3 DEF Queries
    <3>5. View(task[r].key).own[task[r].key.of] # Gone
      BY <1>1, <1>3, <2>5, <3>3, ViewTyped DEF Row, Id, Kind
    <3>6. Holds(more, task[r].key)
      BY <2>4, <3>2, <3>5 DEF Holds
    <3>7. RequestFits(r)'
      BY <1>1, <2>2, <2>4, <3>4, <3>6 DEF RequestFits, PcFits, HandFits, TodoFits, Kind
    <3> QED
      BY <2>2, <3>7, MovesTyped
  <2>6. CASE task[r].key \notin Singles
    <3>1. RequestFits(r)'
      BY <1>1, <2>2, <2>4, <2>6 DEF RequestFits, PcFits, HandFits, TodoFits, Kind, Holds
    <3> QED
      BY <2>2, <3>1, MovesTyped
  <2> QED
    BY <2>5, <2>6
<1> QED
  BY <1>2, <1>3 DEF Query

LEMMA FillTyped ==
  ASSUME RequestsInv, NEW r \in Requests, Fill(r) \/ FillFails(r)
  PROVE  RequestsInv'
<1>1. task' = task /\ pc[r] = "fill" /\ (Found(r) \/ Answer(r, "failed"))
  BY DEF Fill, FillFails
<1> QED
  BY <1>1, FoundTyped, AnswerTyped

\* A request that has written starts to delete keys.
LEMMA ToInvalidate ==
  ASSUME RequestsInv, NEW r \in Requests, task' = task,
         task[r].op # "read", task[r].op = "create" => Kind(r) = "product",
         Goto(r, "invalidate"), todo' = [todo EXCEPT ![r] = Invalidated(task[r])],
         UNCHANGED <<result, found, dirty>>
  PROVE  RequestsInv' /\ todo'[r] = Invalidated(task[r])
<1>1. /\ Invalidated(task[r]) \in Seq(Keys) /\ Invalidated(task[r]) # << >>
      /\ ElementsOf(Invalidated(task[r])) = Deletes(task[r])
  BY RequestFacts, InvalidatedKeys
<1>2. "invalidate" \in Labels
  BY DEF Labels, Running
<1>3. /\ Moves(r) /\ pc'[r] = "invalidate"
      /\ found'[r] = found[r] /\ dirty'[r] = dirty[r] /\ todo'[r] = Invalidated(task[r])
  BY <1>2 DEF RequestsInv, Moves, Goto, IsFcn, Labels
<1>4. RequestFits(r)
  BY DEF RequestsInv
<1>5. RequestFits(r)'
  BY <1>1, <1>3, <1>4 DEF RequestFits, PcFits, HandFits, TodoFits, Kind
<1> QED
  BY <1>3, <1>5, MovesTyped

LEMMA DiffTyped ==
  ASSUME RequestsInv, NEW r \in Requests, Diff(r)
  PROVE  RequestsInv'
<1>1. task' = task /\ pc[r] = "diff" /\ RequestFits(r) /\ task[r].op = "update"
  BY RequestFacts DEF Diff, RequestFits, PcFits
<1>2. CASE Goto(r, "insert") /\ NoAnswer
  <2>1. "insert" \in Labels
    BY DEF Labels, Running
  <2>2. /\ Moves(r) /\ pc'[r] = "insert"
        /\ found'[r] = found[r] /\ dirty'[r] = dirty[r] /\ todo'[r] = todo[r]
    BY <1>1, <1>2, <2>1, GotoMoves
  <2>3. RequestFits(r)'
    BY <1>1, <2>2 DEF RequestFits, PcFits, HandFits, TodoFits, Kind
  <2> QED
    BY <2>2, <2>3, MovesTyped
<1>3. CASE /\ Goto(r, "invalidate")
           /\ todo' = [todo EXCEPT ![r] = Invalidated(task[r])]
           /\ UNCHANGED <<result, found, dirty>>
  BY <1>1, <1>3, ToInvalidate
<1>4. CASE /\ dirty' = [dirty EXCEPT ![r] = {c \in Columns(Kind(r)) : Row(r)[c] # Entity(r)[c]}]
           /\ Goto(r, "update")
           /\ UNCHANGED <<result, found, todo>>
  <2> DEFINE differs == {c \in Columns(Kind(r)) : Row(r)[c] # Entity(r)[c]}
  <2>1. "update" \in Labels
    BY DEF Labels, Running
  <2>2. /\ Moves(r) /\ pc'[r] = "update"
        /\ found'[r] = found[r] /\ dirty'[r] = differs /\ todo'[r] = todo[r]
    BY <1>1, <1>4, <2>1 DEF RequestsInv, Moves, Goto, IsFcn, Labels
  <2>3. differs \subseteq Columns(Kind(r))
    OBVIOUS
  <2>4. RequestFits(r)'
    BY <1>1, <2>2, <2>3 DEF RequestFits, PcFits, HandFits, TodoFits, Kind
  <2> QED
    BY <2>2, <2>4, MovesTyped
<1> QED
  BY <1>2, <1>3, <1>4 DEF Diff

LEMMA WrittenTyped ==
  ASSUME RequestsInv, NEW r \in Requests, Written(r), task' = task,
         task[r].op # "read", task[r].op = "create" => Kind(r) = "product"
  PROVE  RequestsInv'
BY ToInvalidate, AnswerTyped DEF Written

LEMMA WriteTyped ==
  ASSUME RequestsInv, NEW r \in Requests,
         UpdateRow(r) \/ InsertRow(r) \/ RemoveRow(r) \/ CreateProduct(r) \/ CreateOrder(r)
  PROVE  RequestsInv'
<1>1. task' = task /\ PcFits(r)
  BY RequestFacts DEF UpdateRow, InsertRow, RemoveRow, CreateProduct, CreateOrder, RequestFits
<1>2. CASE Answer(r, "ok") \/ Answer(r, "failed")
  BY <1>1, <1>2, AnswerTyped
<1>3. CASE Written(r) /\ pc[r] \in {"update", "insert", "remove"}
  <2>1. task[r].op \in {"update", "remove"}
    BY <1>1, <1>3 DEF PcFits
  <2> QED
    BY <1>1, <1>3, <2>1, WrittenTyped
<1>4. CASE Written(r) /\ pc[r] = "create" /\ Kind(r) = "product"
  <2>1. task[r].op = "create"
    BY <1>1, <1>4 DEF PcFits
  <2> QED
    BY <1>1, <1>4, <2>1, WrittenTyped
<1> QED
  BY <1>2, <1>3, <1>4 DEF UpdateRow, InsertRow, RemoveRow, CreateProduct, CreateOrder

LEMMA TailElements ==
  ASSUME NEW seq \in Seq(Keys), seq # << >>
  PROVE  /\ Head(seq) \in Keys /\ Tail(seq) \in Seq(Keys)
         /\ Len(seq) \in Nat /\ (Tail(seq) = << >> <=> Len(seq) = 1)
         /\ ElementsOf(seq) = {Head(seq)} \cup ElementsOf(Tail(seq))
<1>1. /\ Head(seq) \in Keys /\ Tail(seq) \in Seq(Keys) /\ Len(Tail(seq)) = Len(seq) - 1
      /\ \A n \in 1 .. Len(Tail(seq)) : Tail(seq)[n] = seq[n + 1]
  BY HeadTailProperties
<1>2. /\ Len(seq) \in Nat \ {0} /\ DOMAIN seq = 1 .. Len(seq) /\ Head(seq) = seq[1]
      /\ DOMAIN Tail(seq) = 1 .. Len(seq) - 1
  BY <1>1, EmptySeq, LenProperties
<1> DEFINE tail == Tail(seq)
<1>3. \A n \in DOMAIN tail : n + 1 \in DOMAIN seq /\ tail[n] = seq[n + 1]
  BY <1>1, <1>2
<1>4. \A n \in DOMAIN seq : n # 1 => n - 1 \in DOMAIN tail /\ seq[n] = tail[n - 1]
  BY <1>1, <1>2
<1>5. 1 \in DOMAIN seq
  BY <1>2
<1>6. ElementsOf(seq) = {seq[1]} \cup ElementsOf(tail)
  <2> HIDE DEF tail
  <2> QED
    BY <1>3, <1>4, <1>5 DEF ElementsOf
<1>7. ASSUME NEW s \in Seq(Keys) PROVE s = << >> <=> Len(s) = 0
  BY EmptySeq
<1>8. tail = << >> <=> Len(tail) = 0
  <2>1. tail \in Seq(Keys)
    BY <1>1
  <2> HIDE DEF tail
  <2> QED
    BY <1>7, <2>1
<1> QED
  BY <1>1, <1>2, <1>6, <1>8

LEMMA InvalidateTyped ==
  ASSUME RequestsInv, NEW r \in Requests, Invalidate(r)
  PROVE  /\ RequestsInv' /\ Head(todo[r]) \in Keys
         /\ ElementsOf(todo[r]) = {Head(todo[r])} \cup ElementsOf(todo'[r])
<1>1. task' = task /\ pc[r] = "invalidate" /\ RequestFits(r)
  BY RequestFacts DEF Invalidate
<1>2. todo[r] \in Seq(Keys) /\ todo[r] # << >>
  BY <1>1 DEF RequestFits, TodoFits
<1>3. /\ Head(todo[r]) \in Keys /\ Tail(todo[r]) \in Seq(Keys)
      /\ Len(todo[r]) \in Nat /\ (Tail(todo[r]) = << >> <=> Len(todo[r]) = 1)
      /\ ElementsOf(todo[r]) = {Head(todo[r])} \cup ElementsOf(Tail(todo[r]))
  BY <1>2, TailElements
<1>4. CASE Len(todo[r]) = 1 /\ Answer(r, "ok")
  <2>1. RequestsInv' /\ todo'[r] = << >>
    BY <1>1, <1>4, AnswerTyped, AnswerMoves
  <2>2. Tail(todo[r]) = << >>
    BY <1>3, <1>4
  <2> QED
    BY <1>3, <2>1, <2>2
<1>5. CASE /\ Len(todo[r]) > 1 /\ todo' = [todo EXCEPT ![r] = Tail(@)]
           /\ UNCHANGED <<pc, result, found, dirty>>
  <2>1. /\ Moves(r) /\ pc'[r] = "invalidate"
        /\ found'[r] = found[r] /\ dirty'[r] = dirty[r] /\ todo'[r] = Tail(todo[r])
    <3>1. pc' = [pc EXCEPT ![r] = "invalidate"] /\ "invalidate" \in Labels
      BY <1>1, <1>5 DEF RequestsInv, Labels, Running
    <3> QED
      BY <1>1, <1>5, <3>1 DEF RequestsInv, Moves, IsFcn
  <2>2. Len(todo[r]) # 1
    <3>1. \A n \in Nat : n > 1 => n # 1
      OBVIOUS
    <3>2. Len(todo[r]) \in Nat /\ Len(todo[r]) > 1
      BY <1>3, <1>5, Zenon
    <3> QED
      BY <3>1, <3>2, Zenon
  <2>3. RequestFits(r)'
    <3>1. Tail(todo[r]) # << >>
      BY <1>3, <2>2, Zenon
    <3> QED
      BY <1>1, <1>3, <2>1, <3>1 DEF RequestFits, PcFits, HandFits, TodoFits, Kind
  <2> QED
    BY <1>3, <2>1, <2>3, MovesTyped
<1> QED
  BY <1>4, <1>5 DEF Invalidate

LEMMA EndTyped ==
  ASSUME RequestsInv, NEW r \in Requests, InvalidateFails(r) \/ DbError(r) \/ Crash(r)
  PROVE  RequestsInv'
BY AnswerTyped DEF InvalidateFails, DbError, Crash

LEMMA ExpireTyped ==
  ASSUME RequestsInv, NEW key \in Keys, Expire(key)
  PROVE  RequestsInv'
BY DEF Expire, RequestsInv, RequestFits, PcFits, HandFits, TodoFits, NoAnswer, Kind

\* What a writer has found, and what it will save, are rows.
FoundRow(r) == found[r][1].own[Id(r)]

LEMMA EntityTyped ==
  ASSUME RequestsInv, NEW r \in Requests, pc[r] \in {"fill", "diff", "update", "insert", "remove"},
         task[r].op # "read"
  PROVE  /\ task[r].op \in {"update", "remove"} /\ task[r].key \in Singles /\ Id(r) \in Ids(Kind(r))
         /\ found[r] # << >> /\ FoundRow(r) # Gone
         /\ FoundRow(r) \in Rows(Kind(r)) /\ Entity(r) \in Rows(Kind(r))
<1>1. task \in Workloads /\ RequestFits(r)
  BY DEF RequestsInv
<1>2. /\ Ask(task[r]) /\ task[r].key \in Keys
      /\ task[r].op \in {"create", "update", "remove"} => Id(r) \in Ids(Kind(r))
  BY <1>1, TaskFields DEF Ask
<1>3. task[r].op \in {"update", "remove"}
  BY <1>1, <1>2 DEF RequestFits, PcFits, Ask
<1>4. task[r].key \in Singles /\ Id(r) \in Ids(Kind(r))
  BY <1>2, <1>3 DEF Ask
<1>5. found[r] \in Seq(Views(task[r].key)) /\ found[r] # << >> /\ FoundRow(r) # Gone
  BY <1>1, <1>4 DEF RequestFits, HandFits, Holds, Stored, FoundRow, Id
<1>6. found[r][1] \in Views(task[r].key)
  <2>1. Len(found[r]) \in Nat \ {0}
    BY <1>5, EmptySeq
  <2>2. 1 \in 1 .. Len(found[r])
    BY <2>1
  <2> QED
    BY <1>5, <2>2, ElementOfSeq
<1>7. OwnIds(task[r].key) = {Id(r)}
  BY <1>4 DEF OwnIds, Id, Kind
<1>8. FoundRow(r) \in Rows(Kind(r)) \cup {Gone}
  BY <1>6, <1>7 DEF FoundRow, Views, Kind
<1>9. r \in Requests \cup {OldOrder, OldProduct} /\ FoundRow(r) \in Rows(Kind(r))
  BY <1>5, <1>8
<1>10. Entity(r) \in Rows(Kind(r))
  BY <1>9 DEF Entity, FoundRow, Rows
<1> QED
  BY <1>3, <1>4, <1>5, <1>9, <1>10

LEMMA PutTyped ==
  ASSUME TablesInv, NEW r \in Requests, Kind(r) \in Kinds, Id(r) \in Ids(Kind(r)),
         NEW row \in Rows(Kind(r)) \cup {Gone}, Put(r, row)
  PROVE  /\ IsFcn(table', Kinds)
         /\ \A kind \in Kinds : table'[kind] \in [Ids(kind) -> Rows(kind) \cup {Gone}]
         /\ table'[Kind(r)] = [table[Kind(r)] EXCEPT ![Id(r)] = row]
         /\ \A kind \in Kinds \ {Kind(r)} : table'[kind] = table[kind]
<1>1. table' = [table EXCEPT ![Kind(r)] = [table[Kind(r)] EXCEPT ![Id(r)] = row]]
  BY DEF Put
<1>2. table = [kind \in Kinds |-> table[kind]]
  BY DEF TablesInv, IsFcn
<1>3. /\ table'[Kind(r)] = [table[Kind(r)] EXCEPT ![Id(r)] = row]
      /\ \A kind \in Kinds \ {Kind(r)} : table'[kind] = table[kind]
      /\ IsFcn(table', Kinds)
  <2> DEFINE changed == [table[Kind(r)] EXCEPT ![Id(r)] = row]
  <2>1. table' = [table EXCEPT ![Kind(r)] = changed]
    BY <1>1
  <2> HIDE DEF changed
  <2>2. /\ table'[Kind(r)] = changed
        /\ \A kind \in Kinds \ {Kind(r)} : table'[kind] = table[kind]
        /\ IsFcn(table', Kinds)
    BY <1>2, <2>1 DEF IsFcn
  <2> QED
    BY <2>2 DEF changed
<1>4. \A kind \in Kinds : table[kind] \in [Ids(kind) -> Rows(kind) \cup {Gone}]
  BY DEF TablesInv, TablesOK
<1> QED
  BY <1>3, <1>4

Writes(r) ==
    UpdateRow(r) \/ InsertRow(r) \/ RemoveRow(r) \/ CreateProduct(r) \/ CreateOrder(r)

LEMMA OnlyWritesWrite ==
  ASSUME [Next]_vars
  PROVE  NoWrite \/ \E r \in Requests : Writes(r)
BY DEF Next, Progress, vars, Start, GetHit, GetMiss, GetFails, Query, Fill, FillFails, Diff,
       Invalidate, InvalidateFails, DbError, Crash, Expire, NoWrite, Writes

\* A write changes the row of its task and no other.
LEMMA WriteChanges ==
  ASSUME RequestsInv, TablesInv, NEW r \in Requests, Writes(r), ~NoWrite
  PROVE  /\ task[r].op \in {"create", "update", "remove"} /\ Kind(r) \in Kinds
         /\ Id(r) \in Ids(Kind(r))
         /\ IsFcn(table', Kinds)
         /\ \A kind \in Kinds : table'[kind] \in [Ids(kind) -> Rows(kind) \cup {Gone}]
         /\ \A kind \in Kinds : \A i \in Ids(kind) :
               kind # Kind(r) \/ i # Id(r) => table'[kind][i] = table[kind][i]
<1>1. /\ task[r].op \in {"create", "update", "remove"} /\ Kind(r) \in Kinds
      /\ Id(r) \in Ids(Kind(r))
  <2>1. task \in Workloads /\ PcFits(r)
    BY RequestFacts DEF RequestsInv, RequestFits
  <2>2. task[r].op \in {"create", "update", "remove"}
    BY <2>1 DEF Writes, UpdateRow, InsertRow, RemoveRow, CreateProduct, CreateOrder, PcFits
  <2> QED
    BY <2>1, <2>2, TaskFields
<1>2. \E row \in Rows(Kind(r)) \cup {Gone} : Put(r, row)
  <2>1. CASE UpdateRow(r) /\ Row(r) = Gone
    BY <2>1 DEF UpdateRow
  <2>2. CASE UpdateRow(r) /\ Row(r) # Gone
    <3>1. Row(r) \in Rows(Kind(r))
      BY <1>1, <2>2 DEF TablesInv, TablesOK, Row
    <3>2. Entity(r) \in Rows(Kind(r))
      BY <1>1, <2>2, EntityTyped, RequestFacts DEF UpdateRow, RequestFits, PcFits
    <3>3. [c \in Columns(Kind(r)) |-> IF c \in dirty[r] THEN Entity(r)[c] ELSE Row(r)[c]]
            \in Rows(Kind(r))
      BY <3>1, <3>2 DEF Rows
    <3> QED
      BY <2>2, <3>3 DEF UpdateRow
  <2>3. CASE InsertRow(r)
    <3>1. Entity(r) \in Rows(Kind(r))
      BY <1>1, <2>3, EntityTyped, RequestFacts DEF InsertRow, RequestFits, PcFits
    <3>2. Put(r, Entity(r)) \/ table' = table
      BY <2>3 DEF InsertRow
    <3> QED
      BY <2>3, <3>1, <3>2 DEF InsertRow, NoWrite
  <2>4. CASE RemoveRow(r)
    BY <2>4 DEF RemoveRow
  <2>5. CASE CreateProduct(r) \/ CreateOrder(r)
    <3>1. NewRow(Kind(r), r) \in Rows(Kind(r))
      BY <1>1, NewRowTyped
    <3> QED
      BY <2>5, <3>1 DEF CreateProduct, CreateOrder
  <2> QED
    BY <2>1, <2>2, <2>3, <2>4, <2>5 DEF Writes
<1> QED
  <2>1. PICK row \in Rows(Kind(r)) \cup {Gone} : Put(r, row)
    BY <1>2
  <2>2. /\ IsFcn(table', Kinds)
        /\ \A kind \in Kinds : table'[kind] \in [Ids(kind) -> Rows(kind) \cup {Gone}]
        /\ table'[Kind(r)] = [table[Kind(r)] EXCEPT ![Id(r)] = row]
        /\ \A kind \in Kinds \ {Kind(r)} : table'[kind] = table[kind]
    BY <1>1, <2>1, PutTyped
  <2>3. \A i \in Ids(Kind(r)) \ {Id(r)} : table'[Kind(r)][i] = table[Kind(r)][i]
    BY <1>1, <2>2 DEF TablesInv, TablesOK
  <2> QED
    BY <1>1, <2>2, <2>3

LEMMA TablesKept ==
  ASSUME RequestsInv, TablesInv, [Next]_vars
  PROVE  TablesInv'
<1>1. CASE NoWrite
  BY <1>1 DEF NoWrite, TablesInv, TablesOK, IsFcn
<1>2. ASSUME NEW r \in Requests, Writes(r), ~NoWrite
      PROVE  TablesInv'
  <2>1. sold' \subseteq Requests
    BY <1>2 DEF TablesInv, TablesOK, Writes, UpdateRow, InsertRow, RemoveRow, CreateProduct,
                CreateOrder
  <2> QED
    BY <1>2, <2>1, WriteChanges DEF TablesInv, TablesOK
<1> QED
  BY <1>1, <1>2, OnlyWritesWrite

\* A key is set or deleted, the others stay.
LEMMA SetKey ==
  ASSUME CacheInv, NEW key \in Keys, NEW value \in Stored(key), Redis!Set(key, value, TRUE)
  PROVE  /\ IsFcn(cache', Keys) /\ DOMAIN cache' = Keys
         /\ cache'[key] = [value |-> value, ttl |-> TRUE] /\ cache'[key] # NoEntry
         /\ \A k \in Keys \ {key} : cache'[k] = cache[k]
<1>1. cache' = [cache EXCEPT ![key] = [value |-> value, ttl |-> TRUE]]
  BY DEF Redis!Set
<1>2. [value |-> value, ttl |-> TRUE] # NoEntry
  <2>1. [value |-> value, ttl |-> TRUE] \in [value : Stored(key), ttl : BOOLEAN]
    OBVIOUS
  <2> QED
    BY <2>1, StorefrontAssumption
<1> QED
  BY <1>1, <1>2 DEF CacheInv, IsFcn, Redis!Cached

LEMMA DropKey ==
  ASSUME CacheInv, NEW key \in Keys, cache' = [cache EXCEPT ![key] = NoEntry]
  PROVE  /\ IsFcn(cache', Keys) /\ DOMAIN cache' = Keys
         /\ cache'[key] = NoEntry
         /\ \A k \in Keys \ {key} : cache'[k] = cache[k]
BY DEF CacheInv, IsFcn, Redis!Cached

LEMMA FillsKey ==
  ASSUME RequestsInv, NEW r \in Requests, Fill(r)
  PROVE  /\ task[r].key \in Keys /\ found[r] \in Stored(task[r].key)
         /\ Holds(found[r], task[r].key) /\ Redis!Set(task[r].key, found[r], TRUE)
BY RequestFacts DEF Fill, Store, RequestFits, HandFits

\* How a step may change the cache.
LEMMA CacheSteps ==
  ASSUME RequestsInv, [Next]_vars
  PROVE  \/ UNCHANGED cache
         \/ \E r \in Requests : Fill(r)
         \/ \E key \in Keys : /\ cache' = [cache EXCEPT ![key] = NoEntry]
                              /\ tainted' = tainted \ {key}
<1>1. ASSUME NEW r \in Requests, Invalidate(r)
      PROVE  \E key \in Keys : /\ cache' = [cache EXCEPT ![key] = NoEntry]
                               /\ tainted' = tainted \ {key}
  BY <1>1, InvalidateTyped DEF Invalidate, Redis!Delete
<1>2. ASSUME NEW key \in Keys, Expire(key)
      PROVE  cache' = [cache EXCEPT ![key] = NoEntry] /\ tainted' = tainted \ {key}
  BY <1>2 DEF Expire, Redis!Expire
<1>3. \/ UNCHANGED cache \/ \E r \in Requests : Fill(r) \/ Invalidate(r)
      \/ \E key \in Keys : Expire(key)
  BY DEF Next, Progress, vars, Start, GetHit, GetMiss, GetFails, Query, FillFails, Diff,
         UpdateRow, InsertRow, RemoveRow, CreateProduct, CreateOrder,
         InvalidateFails, DbError, Crash
<1> QED
  BY <1>1, <1>2, <1>3

LEMMA CacheKept ==
  ASSUME RequestsInv, CacheInv, [Next]_vars
  PROVE  CacheInv'
<1>1. CASE UNCHANGED cache
  BY <1>1 DEF CacheInv, IsFcn, Redis!CacheTypeOK, Redis!Cached, Redis!Entries
<1>2. ASSUME NEW r \in Requests, Fill(r)
      PROVE  CacheInv'
  <2> DEFINE key == task[r].key
  <2>1. /\ IsFcn(cache', Keys) /\ DOMAIN cache' = Keys
        /\ cache'[key] = [value |-> found[r], ttl |-> TRUE]
        /\ \A k \in Keys \ {key} : cache'[k] = cache[k]
    BY <1>2, FillsKey, SetKey
  <2>2. key \in Keys /\ found[r] \in Stored(key) /\ Holds(found[r], key)
    BY <1>2, FillsKey
  <2>3. cache'[key] \in Redis!Entries(key)
    BY <2>1, <2>2 DEF Redis!Entries
  <2> HIDE DEF key
  <2>4. \A k \in Keys : cache'[k] \in Redis!Entries(k)
    BY <2>1, <2>3 DEF CacheInv, Redis!CacheTypeOK
  <2>5. \A k \in Keys : cache'[k] # NoEntry => Holds(cache'[k].value, k)
    BY <2>1, <2>2 DEF CacheInv, Redis!Cached
  <2> QED
    BY <2>1, <2>4, <2>5 DEF CacheInv, Redis!CacheTypeOK, Redis!Cached, Redis!Entries
<1>3. ASSUME NEW key \in Keys, cache' = [cache EXCEPT ![key] = NoEntry]
      PROVE  CacheInv'
  <2>1. /\ IsFcn(cache', Keys) /\ DOMAIN cache' = Keys /\ cache'[key] = NoEntry
        /\ \A k \in Keys \ {key} : cache'[k] = cache[k]
    BY <1>3, DropKey
  <2>2. \A k \in Keys : cache'[k] \in Redis!Entries(k)
    BY <2>1 DEF CacheInv, Redis!CacheTypeOK, Redis!Entries
  <2>3. \A k \in Keys : cache'[k] # NoEntry => Holds(cache'[k].value, k)
    BY <2>1 DEF CacheInv, Redis!Cached
  <2> QED
    BY <2>1, <2>2, <2>3 DEF CacheInv, Redis!CacheTypeOK, Redis!Cached, Redis!Entries
<1> QED
  BY <1>1, <1>2, <1>3, CacheSteps

\* Only what is cached is tainted.
LEMMA TaintSteps ==
  ASSUME RequestsInv, CacheInv, GhostsOK, [Next]_vars
  PROVE  tainted' \subseteq {key \in Keys : Redis!Cached(key)'}
<1>1. tainted \subseteq Keys /\ \A key \in tainted : Redis!Cached(key)
  BY DEF GhostsOK
<1>2. ASSUME NEW r \in Requests, Fill(r)
      PROVE  tainted' \subseteq {key \in Keys : Redis!Cached(key)'}
  <2>1. /\ task[r].key \in Keys /\ cache'[task[r].key] # NoEntry
        /\ \A k \in Keys \ {task[r].key} : cache'[k] = cache[k]
    BY <1>2, FillsKey, SetKey
  <2>2. tainted' \subseteq tainted \cup {task[r].key}
    BY <1>2 DEF Fill
  <2> QED
    BY <1>1, <2>1, <2>2 DEF Redis!Cached
<1>3. ASSUME NEW key \in Keys, cache' = [cache EXCEPT ![key] = NoEntry],
             tainted' = tainted \ {key}
      PROVE  tainted' \subseteq {k \in Keys : Redis!Cached(k)'}
  <2>1. \A k \in Keys \ {key} : cache'[k] = cache[k]
    BY <1>3, DropKey
  <2> QED
    BY <1>1, <1>3, <2>1 DEF Redis!Cached
<1>4. CASE UNCHANGED cache
  <2>1. ASSUME NEW r \in Requests, Written(r) PROVE tainted' \subseteq tainted \cup
                {key \in ElementsOf(Invalidated(task[r])) : Redis!Cached(key)}
    BY <2>1 DEF Written, LeftBehind
  <2>2. ASSUME NEW r \in Requests, Written(r), task[r].op # "read"
        PROVE  ElementsOf(Invalidated(task[r])) \subseteq Keys
    <3>1. Invalidated(task[r]) \in Seq(Keys)
      BY <2>2, RequestFacts, InvalidatedKeys
    <3> QED
      BY <3>1, ElementOfSeq, LenProperties DEF ElementsOf
  <2>3. \A r \in Requests : ElementsOf(todo[r]) \subseteq Keys
    <3>1. \A r \in Requests : todo[r] \in Seq(Keys)
      BY RequestFacts DEF RequestFits, TodoFits
    <3> QED
      BY <3>1, ElementOfSeq, LenProperties DEF ElementsOf
  <2>4. ASSUME NEW r \in Requests,
               UpdateRow(r) \/ InsertRow(r) \/ RemoveRow(r) \/ CreateProduct(r)
        PROVE  tainted' \subseteq {key \in Keys : Redis!Cached(key)}
    <3>1. task[r].op # "read"
      BY <2>4, RequestFacts
         DEF UpdateRow, InsertRow, RemoveRow, CreateProduct, RequestFits, PcFits
    <3>2. Written(r) \/ tainted' = tainted
      BY <2>4 DEF UpdateRow, InsertRow, RemoveRow, CreateProduct
    <3> QED
      BY <1>1, <2>1, <2>2, <3>1, <3>2
  <2>5. ASSUME NEW r \in Requests, InvalidateFails(r) \/ Crash(r)
        PROVE  tainted' \subseteq {key \in Keys : Redis!Cached(key)}
    BY <1>1, <2>3, <2>5 DEF InvalidateFails, Crash, LeftBehind
  <2>6. \/ tainted' \subseteq tainted
        \/ \E r \in Requests : UpdateRow(r) \/ InsertRow(r) \/ RemoveRow(r) \/ CreateProduct(r)
        \/ \E r \in Requests : InvalidateFails(r) \/ Crash(r)
        \/ \E r \in Requests : Fill(r)
    BY DEF Next, Progress, vars, Start, GetHit, GetMiss, GetFails, Query, FillFails, Diff,
           CreateOrder, Invalidate, DbError, Expire
  <2>7. tainted' \subseteq {key \in Keys : Redis!Cached(key)} \/ \E r \in Requests : Fill(r)
    BY <1>1, <2>4, <2>5, <2>6
  <2> QED
    BY <1>2, <1>4, <2>7 DEF Redis!Cached
<1> QED
  BY <1>2, <1>3, <1>4, CacheSteps

LEMMA ExcusedKept ==
  ASSUME GhostsOK, [Next]_vars
  PROVE  excused' \subseteq Requests
BY DEF GhostsOK, Next, Progress, vars, Start, Rivals, GetHit, GetMiss, GetFails, Query, Fill,
       FillFails, Diff, UpdateRow, InsertRow, RemoveRow, CreateProduct, CreateOrder, Invalidate,
       InvalidateFails, DbError, Crash, Expire

LEMMA TypeKept ==
  ASSUME TypeInv, [Next]_vars
  PROVE  TypeInv'
<1>1. TablesInv /\ CacheInv /\ RequestsInv /\ GhostsOK
  BY DEF TypeInv
<1>2. GhostsOK'
  BY <1>1, TaintSteps, ExcusedKept DEF GhostsOK, Redis!Cached
<1>3. ASSUME UNCHANGED vars PROVE RequestsInv'
  <2>1. /\ pc' = pc /\ task' = task /\ found' = found /\ dirty' = dirty /\ todo' = todo
        /\ result' = result
    BY <1>3 DEF vars
  <2>2. \A r \in Requests : PcFits(r)' <=> PcFits(r)
    BY <2>1 DEF PcFits
  <2>3. \A r \in Requests : HandFits(r)' <=> HandFits(r)
    BY <2>1 DEF HandFits, Kind
  <2>4. \A r \in Requests : TodoFits(r)' <=> TodoFits(r)
    BY <2>1 DEF TodoFits, Kind
  <2> QED
    BY <1>1, <2>1, <2>2, <2>3, <2>4 DEF RequestsInv, RequestFits
<1>4. ASSUME NEW r \in Requests, Progress(r) \/ DbError(r) \/ Crash(r)
      PROVE  RequestsInv'
  BY <1>1, <1>4, StartTyped, GetTyped, QueryTyped, FillTyped, DiffTyped, WriteTyped,
     InvalidateTyped, EndTyped DEF Progress
<1>5. RequestsInv'
  BY <1>1, <1>3, <1>4, ExpireTyped DEF Next
<1> QED
  BY <1>1, <1>2, <1>5, TablesKept, CacheKept DEF TypeInv

\* The state is well typed whatever the requests: an update or a removal has
\* an entity in hand, be it from the database or from the cache, and what is
\* tainted is cached.
THEOREM TypeCorrect == Spec => []TypeOK
BY TypeInit, TypeKept, TypeInvIsEnough, PTL DEF Spec

-----------------------------------------------------------------------------
(* A row that is not created yet *)

Busy(s) == pc[s] \in {"fill", "diff", "update", "insert", "remove"}

\* Nobody knows anything of a row before it is created.
Unborn(r) ==
    task[r].op = "create" /\ pc[r] \in {"idle", "create"} =>
        /\ Row(r) = Gone
        /\ ~Redis!Cached(task[r].key)
        /\ \A s \in Requests : task[s].key = task[r].key => ~Busy(s)

BornInv == \A r \in Requests : Unborn(r)

\* The steps of one request leave the others alone.
Steps(r) == Progress(r) \/ DbError(r) \/ Crash(r)

LEMMA NextIsAStep == [Next]_vars => \/ \E r \in Requests : Steps(r)
                                    \/ \E key \in Keys : Expire(key)
                                    \/ UNCHANGED vars
BY DEF Next, Steps

LEMMA OthersStay ==
  ASSUME RequestsInv, NEW r \in Requests, Steps(r), NEW s \in Requests, s # r
  PROVE  pc'[s] = pc[s] /\ found'[s] = found[s] /\ dirty'[s] = dirty[s] /\ todo'[s] = todo[s]
<1> USE DEF Steps, Progress, DbError, Crash, Start, GetHit, GetMiss, GetFails, Query, Fill, FillFails,
        Found, Diff, UpdateRow, InsertRow, RemoveRow, CreateProduct, CreateOrder, Written,
        Invalidate, InvalidateFails, Answer, Goto, NoAnswer
<1>1. pc' = pc \/ \E label : pc' = [pc EXCEPT ![r] = label]
  OBVIOUS
<1>2. found' = found \/ \E value : found' = [found EXCEPT ![r] = value]
  OBVIOUS
<1>3. dirty' = dirty \/ \E value : dirty' = [dirty EXCEPT ![r] = value]
  OBVIOUS
<1>4. todo' = todo \/ \E value : todo' = [todo EXCEPT ![r] = value]
  OBVIOUS
<1> QED
  BY <1>1, <1>2, <1>3, <1>4 DEF RequestsInv, IsFcn

LEMMA TaskStays ==
  ASSUME [Next]_vars
  PROVE  task' = task
BY DEF vars, Next, Progress, Start, GetHit, GetMiss, GetFails, Query, Fill, FillFails, Diff, UpdateRow,
       InsertRow, RemoveRow, CreateProduct, CreateOrder, Invalidate, InvalidateFails, DbError, Crash,
       Expire

\* Where a request goes: never back, and to the row only over a row.
LEMMA WhereItGoes ==
  ASSUME RequestsInv, NEW r \in Requests, Steps(r)
  PROVE  /\ pc'[r] \in {"idle", "create"} => pc[r] = "idle"
         /\ Busy(r)' => \/ Busy(r)
                        \/ Query(r) /\ (task[r].key \in Singles => Row(r) # Gone)
                        \/ GetHit(r)
         /\ pc[r] = "create" => pc'[r] \in {"done", "invalidate"}
<1> USE DEF RequestsInv
<1>1. CASE Start(r)
  BY <1>1 DEF Start, Goto, Busy
<1>2. CASE GetMiss(r) \/ GetFails(r)
  BY <1>2 DEF GetMiss, GetFails, Goto, Answer, Busy
<1>3. CASE GetHit(r)
  BY <1>3 DEF GetHit, Goto, Answer, NextAfterFind
<1>4. CASE Query(r)
  BY <1>4 DEF Query, Goto, Answer, Busy, Singles, Id, Kind
<1>5. CASE Fill(r) \/ FillFails(r)
  BY <1>5 DEF Fill, FillFails, Found, Goto, Answer, Busy, NextAfterFind
<1>6. CASE Diff(r)
  BY <1>6 DEF Diff, Goto, Busy
<1>7. CASE Writes(r)
  BY <1>7 DEF Writes, UpdateRow, InsertRow, RemoveRow, CreateProduct, CreateOrder, Written, Goto,
              Answer, Busy
<1>8. CASE Invalidate(r)
  BY <1>8 DEF Invalidate, Goto, Answer, Busy
<1>9. CASE InvalidateFails(r) \/ DbError(r) \/ Crash(r)
  BY <1>9 DEF InvalidateFails, DbError, Crash, Running, Goto, Answer, Busy
<1> QED
  BY <1>1, <1>2, <1>3, <1>4, <1>5, <1>6, <1>7, <1>8, <1>9 DEF Steps, Progress, Writes

LEMMA BornInit == Init => BornInv
<1> SUFFICES ASSUME Init, NEW r \in Requests, task[r].op = "create" PROVE Unborn(r)
  BY DEF BornInv, Unborn
<1>1. task \in Workloads /\ pc = [s \in Requests |-> "idle"]
  BY DEF Init
<1>2. Kind(r) \in Kinds /\ Id(r) = r /\ r \in Ids(Kind(r)) /\ task[r].key \in Keys
  BY <1>1, TaskFields DEF Ask
<1>3. Row(r) = Gone
  <2>1. table[Kind(r)] = [i \in Ids(Kind(r)) |->
                            IF i \in Requests THEN Gone ELSE NewRow(Kind(r), i)]
    BY <1>2 DEF Init
  <2> QED
    BY <1>2, <2>1 DEF Row
<1>4. ~Redis!Cached(task[r].key)
  BY <1>2 DEF Init, Redis!CacheInit, Redis!Cached
<1> QED
  BY <1>1, <1>3, <1>4 DEF Unborn, Busy

LEMMA SameKey ==
  ASSUME RequestsInv, NEW r \in Requests, NEW s \in Requests
  PROVE  /\ task[s].key = task[r].key <=> Kind(s) = Kind(r) /\ Id(s) = Id(r)
         /\ Kind(r) = task[r].key.kind /\ Id(r) = task[r].key.of
BY RequestFacts DEF Kind, Id

LEMMA BornKept ==
  ASSUME TypeInv, BornInv, [Next]_vars
  PROVE  BornInv'
<1> SUFFICES ASSUME NEW r \in Requests, task[r].op = "create", pc'[r] \in {"idle", "create"}
             PROVE  Unborn(r)'
  BY TaskStays DEF BornInv, Unborn
<1>1. TablesInv /\ CacheInv /\ RequestsInv /\ GhostsOK /\ task' = task
  BY TaskStays DEF TypeInv
<1>2. pc[r] \in {"idle", "create"}
  <2>1. ASSUME NEW s \in Requests, Steps(s) PROVE pc[r] \in {"idle", "create"}
    BY <1>1, <2>1, OthersStay, WhereItGoes
  <2>2. ASSUME pc' = pc PROVE pc[r] \in {"idle", "create"}
    BY <2>2
  <2> QED
    BY <2>1, <2>2, NextIsAStep DEF Expire, vars
<1>3. Unborn(r)
  BY DEF BornInv
<1>4. /\ Row(r) = Gone /\ ~Redis!Cached(task[r].key)
      /\ \A s \in Requests : task[s].key = task[r].key => ~Busy(s)
  BY <1>2, <1>3 DEF Unborn
<1>5. Id(r) = r /\ Kind(r) \in Kinds /\ r \in Ids(Kind(r)) /\ task[r].key \in Singles
      /\ task[r].key \in Keys
  BY <1>1, RequestFacts, TaskFields DEF Ask, RequestsInv
<1>6. Row(r)' = Gone
  <2>1. CASE NoWrite
    BY <1>1, <1>4, <2>1 DEF NoWrite, Row, Kind, Id
  <2>2. ASSUME NEW s \in Requests, Writes(s), ~NoWrite
        PROVE  Row(r)' = Gone
    <3>1. s # r
      <4>1. Steps(s)
        BY <2>2 DEF Writes, Steps, Progress
      <4>2. pc[s] \in {"update", "insert", "remove", "create"}
        BY <2>2 DEF Writes, UpdateRow, InsertRow, RemoveRow, CreateProduct, CreateOrder
      <4> QED
        BY <1>1, <1>2, <4>1, <4>2, WhereItGoes
    <3>2. Kind(s) # Kind(r) \/ Id(s) # Id(r)
      <4>1. CASE pc[s] = "create"
        BY <1>1, <1>5, <3>1, <4>1, RequestFacts, TaskFields DEF RequestsInv, RequestFits, PcFits
      <4>2. CASE pc[s] # "create"
        <5>1. Busy(s)
          BY <2>2, <4>2 DEF Busy, Writes, UpdateRow, InsertRow, RemoveRow, CreateProduct,
                            CreateOrder
        <5> QED
          BY <1>1, <1>4, <5>1, SameKey
      <4> QED
        BY <4>1, <4>2
    <3>3. table'[Kind(r)][Id(r)] = table[Kind(r)][Id(r)]
      BY <1>1, <1>5, <2>2, <3>2, WriteChanges
    <3> QED
      BY <1>1, <1>4, <3>3 DEF Row, Kind, Id
  <2> QED
    BY <2>1, <2>2, OnlyWritesWrite
<1>7. cache'[task[r].key] = NoEntry
  <2>1. cache[task[r].key] = NoEntry
    BY <1>4 DEF Redis!Cached
  <2>2. ASSUME NEW s \in Requests, Fill(s)
        PROVE  cache'[task[r].key] = NoEntry
    <3>1. task[s].key # task[r].key
      BY <1>4, <2>2 DEF Fill, Busy
    <3>2. task[s].key \in Keys /\ found[s] \in Stored(task[s].key)
          /\ Redis!Set(task[s].key, found[s], TRUE)
      BY <1>1, <2>2, FillsKey
    <3>3. \A k \in Keys \ {task[s].key} : cache'[k] = cache[k]
      BY <1>1, <3>2, SetKey
    <3> QED
      BY <1>5, <2>1, <3>1, <3>3
  <2>3. ASSUME NEW key \in Keys, cache' = [cache EXCEPT ![key] = NoEntry]
        PROVE  cache'[task[r].key] = NoEntry
    BY <1>1, <1>5, <2>1, <2>3, DropKey
  <2> QED
    BY <1>1, <2>1, <2>2, <2>3, CacheSteps
<1>8. ASSUME NEW s \in Requests, task[s].key = task[r].key
      PROVE  ~Busy(s)'
  <2>1. ~Busy(s) /\ Row(s) = Gone
    BY <1>1, <1>4, <1>8, SameKey DEF Row
  <2>2. CASE Steps(s)
    <3>1. ~GetHit(s)
      BY <1>4, <1>8 DEF GetHit
    <3> QED
      BY <1>1, <1>5, <1>8, <2>1, <2>2, <3>1, WhereItGoes
  <2>3. CASE pc'[s] = pc[s]
    BY <2>1, <2>3 DEF Busy
  <2>4. ASSUME NEW q \in Requests, Steps(q), q # s PROVE pc'[s] = pc[s]
    BY <1>1, <2>4, OthersStay
  <2> QED
    BY <2>2, <2>3, <2>4, NextIsAStep DEF Expire, vars
<1> QED
  BY <1>1, <1>6, <1>7, <1>8 DEF Unborn, Redis!Cached

-----------------------------------------------------------------------------
(* Stale entries *)

\* The rows that key shows now.
Own(key) == [i \in OwnIds(key) |-> table[key.kind][i]]

Reason(key) == key \in tainted \/ \E r \in Requests : key \in ElementsOf(todo[r])

Coherent(key) ==
    Redis!Cached(key) /\ (\E n \in DOMAIN cache[key].value : cache[key].value[n].own # Own(key))
        => Reason(key)

LEMMA OutdatedMeans ==
  ASSUME NEW key, NEW value
  PROVE  Outdated(value, key) <=> \E n \in DOMAIN value : value[n].own # Own(key)
<1>1. View(key).own = Own(key)
  BY DEF View, Own
<1> QED
  BY <1>1 DEF Outdated

LEMMA StaleMeans == StaleNeedsReason <=> \A key \in DeletedKeys : Coherent(key)
<1>1. \A key : Outdated(cache[key].value, key)
                  <=> \E n \in DOMAIN cache[key].value : cache[key].value[n].own # Own(key)
  BY OutdatedMeans
<1> QED
  BY <1>1 DEF StaleNeedsReason, Coherent, Reason

\* Who writes a row that a key to be deleted shows will delete that key, but
\* for the key of a row that is only created now.
LEMMA WriterDeletes ==
  ASSUME RequestsInv, NEW r \in Requests, NEW key \in DeletedKeys,
         task[r].op \in {"create", "update", "remove"},
         key.kind = Kind(r), Id(r) \in OwnIds(key)
  PROVE  \/ key \in Deletes(task[r]) /\ (task[r].op = "create" => Kind(r) = "product")
         \/ task[r].op = "create" /\ key = task[r].key
<1>1. Kind(r) = task[r].key.kind /\ Id(r) = task[r].key.of /\ task[r].key = Key1(Kind(r), Id(r))
  BY RequestFacts DEF Kind, Id
<1>2. key \in Keys
  BY ListElements, SomeKeys DEF DeletedKeys, Kinds
<1>3. CASE key \in Singles
  <2>1. Id(r) = key.of
    BY <1>3 DEF OwnIds, Singles
  <2>2. key = task[r].key
    BY <1>1, <1>2, <2>1, KeyFields
  <2> QED
    BY <1>1, <2>2 DEF Deletes
<1>4. CASE key \in ElementsOf(Lists)
  <2>1. key.kind = "product"
    BY <1>4, ListElements DEF Key1
  <2> QED
    BY <1>1, <1>4, <2>1 DEF Deletes
<1> QED
  BY <1>2, <1>3, <1>4 DEF DeletedKeys, Singles

LEMMA ReasonStays ==
  ASSUME RequestsInv, NEW r \in Requests, Steps(r), NEW key, Reason(key),
         key \in tainted \/ key \in ElementsOf(todo[r]) =>
            key \in tainted' \/ key \in ElementsOf(todo'[r])
  PROVE  Reason(key)'
<1>1. \A s \in Requests \ {r} : todo'[s] = todo[s]
  BY OthersStay
<1> QED
  BY <1>1 DEF Reason, ElementsOf

\* A step that writes no rows.
LEMMA ReadsKeepCoherent ==
  ASSUME TypeInv, NEW key \in DeletedKeys, Coherent(key), NEW r \in Requests, Steps(r), NoWrite
  PROVE  Coherent(key)'
<1>1. TablesInv /\ CacheInv /\ RequestsInv /\ GhostsOK /\ [Next]_vars
  BY DEF TypeInv, Next, Steps
<1>2. key \in Keys /\ Own(key)' = Own(key)
  BY ListElements, SomeKeys DEF DeletedKeys, Kinds, NoWrite, Own
<1>3. pc[r] # "invalidate" => ElementsOf(todo[r]) = {}
  BY <1>1, NoElements, RequestFacts DEF RequestFits, TodoFits
<1>4. CASE Fill(r)
  <2>1. /\ task[r].key \in Keys /\ cache'[task[r].key] = [value |-> found[r], ttl |-> TRUE]
        /\ \A k \in Keys \ {task[r].key} : cache'[k] = cache[k]
    BY <1>1, <1>4, FillsKey, SetKey
  <2>2. Outdated(found[r], task[r].key)
           <=> \E n \in DOMAIN found[r] : found[r][n].own # Own(task[r].key)
    BY OutdatedMeans
  <2>3. CASE key = task[r].key
    <3>1. (\E n \in DOMAIN found[r] : found[r][n].own # Own(key)) => key \in tainted'
      BY <1>4, <2>2, <2>3 DEF Fill
    <3>2. cache'[key].value = found[r]
      BY <2>1, <2>3
    <3> QED
      BY <1>2, <3>1, <3>2 DEF Coherent, Reason
  <2>4. CASE key # task[r].key
    <3>1. cache'[key] = cache[key]
      BY <1>2, <2>1, <2>4
    <3>2. Reason(key) => Reason(key)'
      BY <1>1, <1>3, <1>4, <2>4, ReasonStays DEF Fill
    <3> QED
      BY <1>2, <3>1, <3>2 DEF Coherent, Redis!Cached
  <2> QED
    BY <2>3, <2>4
<1>5. CASE Invalidate(r)
  <2>1. /\ Head(todo[r]) \in Keys /\ cache' = [cache EXCEPT ![Head(todo[r])] = NoEntry]
        /\ ElementsOf(todo[r]) = {Head(todo[r])} \cup ElementsOf(todo'[r])
        /\ tainted' = tainted \ {Head(todo[r])}
    BY <1>1, <1>5, InvalidateTyped DEF Invalidate, Redis!Delete
  <2>2. /\ cache'[Head(todo[r])] = NoEntry
        /\ \A k \in Keys \ {Head(todo[r])} : cache'[k] = cache[k]
    BY <1>1, <2>1, DropKey
  <2>3. CASE key = Head(todo[r])
    BY <2>2, <2>3 DEF Coherent, Redis!Cached
  <2>4. CASE key # Head(todo[r])
    <3>1. cache'[key] = cache[key]
      BY <1>2, <2>2, <2>4
    <3>2. Reason(key) => Reason(key)'
      BY <1>1, <2>1, <2>4, ReasonStays
    <3> QED
      BY <1>2, <3>1, <3>2 DEF Coherent, Redis!Cached
  <2> QED
    BY <2>3, <2>4
<1>6. CASE InvalidateFails(r) \/ Crash(r)
  <2>1. cache' = cache /\ tainted' = tainted \cup {k \in ElementsOf(todo[r]) : Redis!Cached(k)}
    BY <1>6 DEF InvalidateFails, Crash, LeftBehind
  <2>2. Reason(key) /\ Redis!Cached(key) => Reason(key)'
    BY <1>1, <2>1, ReasonStays
  <2> QED
    BY <1>2, <2>1, <2>2 DEF Coherent, Redis!Cached
<1>7. CASE cache' = cache /\ tainted \subseteq tainted' /\ pc[r] # "invalidate"
  <2>1. Reason(key) => Reason(key)'
    BY <1>1, <1>3, <1>7, ReasonStays
  <2> QED
    BY <1>2, <1>7, <2>1 DEF Coherent, Redis!Cached
<1>8. ASSUME Writes(r)
      PROVE  cache' = cache /\ tainted \subseteq tainted' /\ pc[r] # "invalidate"
  BY <1>8 DEF Writes, UpdateRow, InsertRow, RemoveRow, CreateProduct, CreateOrder, Written,
              LeftBehind
<1> QED
  BY <1>4, <1>5, <1>6, <1>7, <1>8
     DEF Steps, Progress, Writes, Start, GetHit, GetMiss, GetFails, Query, FillFails, Diff, DbError

\* A step that writes a row.
LEMMA WritesKeepCoherent ==
  ASSUME TypeInv, BornInv, NEW key \in DeletedKeys, Coherent(key),
         NEW r \in Requests, Writes(r), ~NoWrite
  PROVE  Coherent(key)'
<1>1. TablesInv /\ CacheInv /\ RequestsInv /\ GhostsOK /\ [Next]_vars /\ Steps(r)
  BY DEF TypeInv, Next, Steps, Progress, Writes
<1>2. key \in Keys /\ key.kind \in Kinds /\ OwnIds(key) \subseteq Ids(key.kind)
  BY ListElements, SomeKeys, KeyFields DEF DeletedKeys, Kinds, OwnIds
<1>3. /\ cache' = cache /\ tainted \subseteq tainted' /\ pc[r] # "invalidate"
      /\ task' = task
  BY DEF Writes, UpdateRow, InsertRow, RemoveRow, CreateProduct, CreateOrder, Written, LeftBehind
<1>4. ElementsOf(todo[r]) = {}
  BY <1>1, <1>3, NoElements, RequestFacts DEF RequestFits, TodoFits
<1>5. Reason(key) => Reason(key)'
  BY <1>1, <1>3, <1>4, ReasonStays
<1>6. /\ task[r].op \in {"create", "update", "remove"} /\ Kind(r) \in Kinds
      /\ \A kind \in Kinds : \A i \in Ids(kind) :
            kind # Kind(r) \/ i # Id(r) => table'[kind][i] = table[kind][i]
  BY <1>1, WriteChanges
<1>7. CASE key.kind # Kind(r) \/ Id(r) \notin OwnIds(key)
  <2>1. \A i \in OwnIds(key) : table'[key.kind][i] = table[key.kind][i]
    BY <1>2, <1>6, <1>7
  <2>2. Own(key)' = Own(key)
    BY <2>1 DEF Own
  <2> QED
    BY <1>3, <1>5, <2>2 DEF Coherent, Redis!Cached
<1>8. CASE key.kind = Kind(r) /\ Id(r) \in OwnIds(key)
  <2>1. CASE key \in Deletes(task[r]) /\ (task[r].op = "create" => Kind(r) = "product")
    <3>1. Written(r)
      BY <1>6, <2>1, RequestFacts, <1>1
         DEF Writes, UpdateRow, InsertRow, RemoveRow, CreateProduct, CreateOrder, RequestFits, PcFits,
             NoWrite
    <3>2. ElementsOf(Invalidated(task[r])) = Deletes(task[r])
      BY <1>1, <1>6, RequestFacts, InvalidatedKeys
    <3>3. CASE todo' = [todo EXCEPT ![r] = Invalidated(task[r])]
      <4>1. todo'[r] = Invalidated(task[r])
        BY <1>1, <3>3 DEF RequestsInv, IsFcn
      <4> QED
        BY <2>1, <3>2, <4>1 DEF Coherent, Reason, ElementsOf
    <3>4. CASE LeftBehind(ElementsOf(Invalidated(task[r])))
      BY <1>3, <2>1, <3>2, <3>4 DEF LeftBehind, Coherent, Reason, Redis!Cached
    <3> QED
      BY <3>1, <3>3, <3>4 DEF Written
  <2>2. CASE task[r].op = "create" /\ key = task[r].key
    <3>1. pc[r] = "create"
      BY <1>1, <2>2, RequestFacts
         DEF Writes, UpdateRow, InsertRow, RemoveRow, CreateProduct, CreateOrder, RequestFits, PcFits
    <3>2. ~Redis!Cached(key)
      BY <2>2, <3>1 DEF BornInv, Unborn
    <3> QED
      BY <1>3, <3>2 DEF Coherent, Redis!Cached
  <2> QED
    BY <1>1, <1>6, <1>8, <2>1, <2>2, WriterDeletes
<1> QED
  BY <1>7, <1>8

LEMMA CoherentKept ==
  ASSUME TypeInv, BornInv, NEW key \in DeletedKeys, Coherent(key), [Next]_vars
  PROVE  Coherent(key)'
<1>1. ASSUME NEW r \in Requests, Steps(r) PROVE Coherent(key)'
  <2>1. [Next]_vars
    OBVIOUS
  <2>2. CASE NoWrite
    BY <1>1, <2>2, ReadsKeepCoherent
  <2>3. CASE ~NoWrite
    <3>1. Writes(r)
      BY <1>1, <2>3 DEF Steps, Progress, Writes, Start, GetHit, GetMiss, GetFails, Query, Fill,
                        FillFails, Diff, Invalidate, InvalidateFails, DbError, Crash
    <3> QED
      BY <2>3, <3>1, WritesKeepCoherent
  <2> QED
    BY <2>2, <2>3
<1>2. ASSUME NEW k \in Keys, Expire(k) PROVE Coherent(key)'
  <2>1. /\ cache' = [cache EXCEPT ![k] = NoEntry] /\ tainted' = tainted \ {k}
        /\ NoWrite /\ todo' = todo
    BY <1>2 DEF Expire, Redis!Expire, NoAnswer
  <2>2. CacheInv /\ key \in Keys /\ Own(key)' = Own(key)
    BY <2>1, ListElements, SomeKeys DEF TypeInv, DeletedKeys, Kinds, NoWrite, Own
  <2>3. cache'[k] = NoEntry /\ \A j \in Keys \ {k} : cache'[j] = cache[j]
    BY <2>1, <2>2, DropKey
  <2>4. CASE key = k
    BY <2>3, <2>4 DEF Coherent, Redis!Cached
  <2>5. CASE key # k
    <3>1. cache'[key] = cache[key] /\ (Reason(key) => Reason(key)')
      BY <2>1, <2>2, <2>3, <2>5 DEF Reason, ElementsOf
    <3> QED
      BY <2>2, <3>1 DEF Coherent, Redis!Cached
  <2> QED
    BY <2>4, <2>5
<1>3. CASE UNCHANGED vars
  BY <1>3 DEF vars, Coherent, Reason, Own, Redis!Cached, ElementsOf
<1> QED
  BY <1>1, <1>2, <1>3, NextIsAStep

CoherentInv == \A key \in DeletedKeys : Coherent(key)

LEMMA CoherentInvKept == TypeInv /\ BornInv /\ CoherentInv /\ [Next]_vars => CoherentInv'
BY CoherentKept DEF CoherentInv, DeletedKeys

LEMMA CoherentInit == Init => CoherentInv
<1> SUFFICES ASSUME Init, NEW key \in DeletedKeys PROVE ~Redis!Cached(key)
  BY DEF CoherentInv, Coherent
<1>1. key \in Keys
  BY ListElements, SomeKeys DEF DeletedKeys, Kinds
<1> QED
  BY <1>1 DEF Init, Redis!CacheInit, Redis!Cached

\* The cache is coherent but for known reasons: an entry that invalidation is
\* responsible for and that misses a write was stored by a read that began
\* before the write, or was left behind by a failure, or a running request is
\* about to delete it.
THEOREM StaleHasAReason == Spec => []StaleNeedsReason
<1>1. CoherentInv => StaleNeedsReason
  BY StaleMeans DEF CoherentInv
<1> QED
  BY <1>1, CoherentInvKept, TypeInit, TypeKept, BornInit, BornKept, CoherentInit, PTL DEF Spec

-----------------------------------------------------------------------------
(* Updates that nobody meets *)

\* An update or a removal under way that has met nobody: no other writer of
\* its row is under way, and what it has in hand is the row as it is.
Undisturbed(r) ==
    r \notin excused /\ IsWriter(r) /\ pc[r] \in Running =>
        /\ Rivals(r) = {}
        /\ Busy(r) => FoundRow(r) = Row(r)

SerialInv == \A r \in Requests : Undisturbed(r)

LEMMA SerialInit == Init => SerialInv
BY DEF Init, SerialInv, Undisturbed, Running

LEMMA RivalMeans ==
  ASSUME NEW r, NEW s
  PROVE  s \in Rivals(r) <=> /\ s \in Requests /\ s # r /\ IsWriter(s)
                             /\ task[s].key = task[r].key /\ pc[s] \in Running
BY DEF Rivals

LEMMA SinglesAreNoLists ==
  ASSUME NEW key \in Singles
  PROVE  key \notin ElementsOf(Lists)
<1>1. key.of \in Ids(key.kind) /\ key.kind \in Kinds
  BY KeyFields DEF Singles
<1>2. key.of # "featured10" /\ key.of # "stats"
  BY <1>1, NamesAreNoIds
<1>3. \A k \in ElementsOf(Lists) : k.of = "featured10" \/ k.of = "stats"
  BY ListElements DEF Key1
<1> QED
  BY <1>2, <1>3

\* An entry of a single order or product that is not tainted is up to date
\* for who has no rivals.
LEMMA HitIsCurrent ==
  ASSUME TypeInv, CoherentInv, NEW r \in Requests, GetHit(r), IsWriter(r), Rivals(r) = {},
         task[r].key \notin tainted
  PROVE  cache[task[r].key].value[1].own[Id(r)] = Row(r)
<1> DEFINE key == task[r].key
<1>1. CacheInv /\ RequestsInv /\ pc[r] = "get" /\ Redis!Cached(key)
  BY DEF TypeInv, GetHit
<1>2. /\ key \in Singles /\ key \in Keys /\ Kind(r) \in Kinds
      /\ Kind(r) = key.kind /\ Id(r) = key.of
  BY <1>1, RequestFacts DEF IsWriter, Ask, Kind, Id
<1>3. key \in DeletedKeys
  BY <1>2 DEF DeletedKeys, Singles
<1>4. ~ \E s \in Requests : key \in ElementsOf(todo[s])
  <2> SUFFICES ASSUME NEW s \in Requests, key \in ElementsOf(todo[s]) PROVE FALSE
    OBVIOUS
  <2>1. key \in Deletes(task[s]) /\ todo[s] # << >> /\ RequestFits(s) /\ Ask(task[s])
    BY <1>1, NoElements, RequestFacts DEF RequestFits, TodoFits
  <2>2. pc[s] = "invalidate" /\ task[s].op # "read" /\ (task[s].op = "create" => Kind(s) = "product")
    BY <2>1 DEF RequestFits, TodoFits
  <2>3. key \notin ElementsOf(Lists)
    BY <1>2, SinglesAreNoLists
  <2>4. key = task[s].key /\ task[s].op # "create"
    BY <2>1, <2>2, <2>3 DEF Deletes, Kind
  <2>5. IsWriter(s) /\ s # r /\ pc[s] \in Running
    BY <1>1, <2>1, <2>2, <2>4 DEF IsWriter, Ask, Running
  <2>6. s \in Rivals(r)
    BY <2>4, <2>5, RivalMeans
  <2> QED
    BY <2>6
<1>5. ~Reason(key)
  BY <1>4 DEF Reason
<1>6. \A n \in DOMAIN cache[key].value : cache[key].value[n].own = Own(key)
  BY <1>1, <1>3, <1>5 DEF CoherentInv, Coherent
<1>7. 1 \in DOMAIN cache[key].value
  <2>1. cache[key].value \in Seq(Views(key)) /\ cache[key].value # << >>
    BY <1>1, <1>2, CacheTyped DEF Holds, Stored
  <2>2. Len(cache[key].value) \in Nat \ {0} /\ DOMAIN cache[key].value = 1 .. Len(cache[key].value)
    BY <2>1, EmptySeq, LenProperties
  <2> QED
    BY <2>2
<1>8. Own(key)[Id(r)] = Row(r)
  BY <1>2 DEF Own, OwnIds, Row, Singles
<1> QED
  BY <1>6, <1>7, <1>8

LEMMA QueryIsCurrent ==
  ASSUME TypeInv, NEW r \in Requests, Query(r), task[r].key \in Singles, pc'[r] # "done"
  PROVE  found'[r][1].own[Id(r)] = Row(r)
<1>1. /\ TablesInv /\ RequestsInv /\ RequestFits(r) /\ pc[r] = "query" /\ task[r].key \in Keys
  BY RequestFacts DEF TypeInv, Query
<1>2. found' = [found EXCEPT ![r] = Append(found[r], View(task[r].key))]
  BY <1>1 DEF Query, Answer, Goto, RequestsInv
<1>3. found[r] = << >>
  BY <1>1 DEF RequestFits, HandFits
<1>4. found'[r] = Append(<< >>, View(task[r].key))
  BY <1>1, <1>2, <1>3 DEF RequestsInv, IsFcn
<1>5. View(task[r].key) \in Views(task[r].key)
      /\ View(task[r].key).own = [i \in {task[r].key.of} |-> table[task[r].key.kind][i]]
  BY <1>1, ViewTyped
<1>6. found'[r][1] = View(task[r].key)
  BY <1>4, <1>5
<1> QED
  BY <1>5, <1>6 DEF Row, Kind, Id

LEMMA ExcusedGrows ==
  ASSUME [Next]_vars
  PROVE  excused \subseteq excused'
BY DEF Next, Progress, vars, Start, GetHit, GetMiss, GetFails, Query, Fill,
       FillFails, Diff, UpdateRow, InsertRow, RemoveRow, CreateProduct, CreateOrder, Invalidate,
       InvalidateFails, DbError, Crash, Expire

\* A step of another request.
LEMMA OthersDoNotDisturb ==
  ASSUME TypeInv, BornInv, NEW r \in Requests, Undisturbed(r), NEW s \in Requests, s # r, Steps(s)
  PROVE  Undisturbed(r)'
<1> SUFFICES ASSUME r \notin excused', IsWriter(r)', pc'[r] \in Running
             PROVE  Rivals(r)' = {} /\ (Busy(r)' => FoundRow(r)' = Row(r)')
  BY DEF Undisturbed
<1>1. /\ TablesInv /\ RequestsInv /\ [Next]_vars /\ task' = task
  BY TaskStays DEF TypeInv, Next, Steps
<1>2. /\ pc'[r] = pc[r] /\ found'[r] = found[r] /\ IsWriter(r) /\ r \notin excused
  BY <1>1, OthersStay, ExcusedGrows DEF IsWriter
<1>3. Rivals(r) = {} /\ (Busy(r) => FoundRow(r) = Row(r))
  BY <1>2 DEF Undisturbed
<1>4. Rivals(r)' = {}
  <2> SUFFICES ASSUME NEW q \in Rivals(r)' PROVE FALSE
    OBVIOUS
  <2>1. q \in Requests /\ q # r /\ IsWriter(q) /\ task[q].key = task[r].key /\ pc'[q] \in Running
    BY <1>1 DEF Rivals, IsWriter
  <2>2. pc[q] \notin Running
    BY <1>3, <2>1, RivalMeans
  <2>3. q = s
    BY <1>1, <2>1, <2>2, OthersStay
  <2>4. CASE Start(s)
    <3>1. r \in Rivals(s)
      BY <1>2, <2>1, <2>3, RivalMeans
    <3> QED
      BY <2>1, <2>3, <2>4, <3>1 DEF Start
  <2>5. CASE ~Start(s)
    <3>1. pc[s] \in Running
      BY <2>5 DEF Steps, Progress, GetHit, GetMiss, GetFails, Query, Fill, FillFails, Diff, UpdateRow,
                  InsertRow, RemoveRow, CreateProduct, CreateOrder, Invalidate, InvalidateFails,
                  DbError, Crash, Running
    <3> QED
      BY <2>2, <2>3, <3>1
  <2> QED
    BY <2>4, <2>5
<1>5. ASSUME Busy(r)
      PROVE  Row(r)' = Row(r)
  <2>1. CASE NoWrite
    BY <1>1, <2>1 DEF NoWrite, Row, Kind, Id
  <2>2. CASE ~NoWrite
    <3>1. Writes(s)
      BY <2>2 DEF Steps, Progress, Writes, Start, GetHit, GetMiss, GetFails, Query, Fill, FillFails,
                  Diff, Invalidate, InvalidateFails, DbError, Crash, NoWrite
    <3>2. /\ task[s].op \in {"create", "update", "remove"}
          /\ \A kind \in Kinds : \A i \in Ids(kind) :
                kind # Kind(s) \/ i # Id(s) => table'[kind][i] = table[kind][i]
      BY <1>1, <2>2, <3>1, WriteChanges
    <3>3. pc[s] \in {"update", "insert", "remove", "create"}
          /\ (pc[s] = "create" <=> task[s].op = "create")
      BY <1>1, <3>1, <3>2, RequestFacts
         DEF Writes, UpdateRow, InsertRow, RemoveRow, CreateProduct, CreateOrder, RequestFits, PcFits
    <3>4. task[s].key # task[r].key
      <4>1. CASE task[s].op = "create"
        BY <1>5, <3>3, <4>1 DEF BornInv, Unborn
      <4>2. CASE task[s].op # "create"
        <5>1. IsWriter(s) /\ pc[s] \in Running
          BY <3>2, <3>3, <4>2 DEF IsWriter, Running
        <5> QED
          BY <1>3, <5>1, RivalMeans
      <4> QED
        BY <4>1, <4>2
    <3>5. Kind(r) \in Kinds /\ Id(r) \in Ids(Kind(r))
      BY <1>1, <1>2, TaskFields DEF RequestsInv, IsWriter
    <3>6. table'[Kind(r)][Id(r)] = table[Kind(r)][Id(r)]
      BY <1>1, <3>2, <3>4, <3>5, SameKey
    <3> QED
      BY <1>1, <3>6 DEF Row, Kind, Id
  <2> QED
    BY <2>1, <2>2
<1>6. ASSUME Busy(r)' PROVE FoundRow(r)' = Row(r)'
  <2>1. Busy(r)
    BY <1>2, <1>6 DEF Busy
  <2>2. FoundRow(r)' = FoundRow(r)
    BY <1>1, <1>2 DEF FoundRow, Id
  <2> QED
    BY <1>3, <1>5, <2>1, <2>2
<1> QED
  BY <1>4, <1>6

\* A step of its own.
LEMMA OwnStepsKeepUndisturbed ==
  ASSUME TypeInv, CoherentInv, NEW r \in Requests, Undisturbed(r), Steps(r)
  PROVE  Undisturbed(r)'
<1> SUFFICES ASSUME r \notin excused', IsWriter(r)', pc'[r] \in Running
             PROVE  Rivals(r)' = {} /\ (Busy(r)' => FoundRow(r)' = Row(r)')
  BY DEF Undisturbed
<1>1. /\ TablesInv /\ RequestsInv /\ [Next]_vars /\ task' = task
  BY TaskStays DEF TypeInv, Next, Steps
<1>2. IsWriter(r) /\ r \notin excused /\ task[r].key \in Singles /\ pc'[r] # "done"
  BY <1>1, ExcusedGrows, RequestFacts DEF IsWriter, Ask, Running
<1>3. Rivals(r)' = Rivals(r)
  <2>1. \A s \in Requests \ {r} : pc'[s] = pc[s]
    BY <1>1, OthersStay
  <2> QED
    BY <1>1, <2>1 DEF Rivals, IsWriter
<1>4. CASE Start(r)
  <2>1. Rivals(r) = {}
    BY <1>2, <1>4 DEF Start
  <2>2. ~Busy(r)'
    BY <1>1, <1>4 DEF Start, Goto, Busy, RequestsInv
  <2> QED
    BY <1>3, <2>1, <2>2
<1>5. CASE ~Start(r)
  <2>1. pc[r] \in Running
    BY <1>5 DEF Steps, Progress, GetHit, GetMiss, GetFails, Query, Fill, FillFails, Diff, UpdateRow,
                InsertRow, RemoveRow, CreateProduct, CreateOrder, Invalidate, InvalidateFails,
                DbError, Crash, Running
  <2>2. Rivals(r) = {} /\ (Busy(r) => FoundRow(r) = Row(r))
    BY <1>2, <2>1 DEF Undisturbed
  <2>3. ASSUME Busy(r)' PROVE FoundRow(r)' = Row(r)'
    <3>1. CASE Busy(r)
      <4>1. found'[r] = found[r] /\ table' = table
        BY <1>1, <1>2, <2>3, <3>1
           DEF Steps, Progress, Start, GetHit, GetMiss, GetFails, Query, Fill, FillFails, Found, Diff,
               UpdateRow, InsertRow, RemoveRow, CreateProduct, CreateOrder, Written, Invalidate,
               InvalidateFails, DbError, Crash, Answer, Goto, NoAnswer, NoWrite, Busy, RequestsInv
      <4> QED
        BY <1>1, <2>2, <3>1, <4>1 DEF FoundRow, Row, Kind, Id
    <3>2. CASE Query(r)
      <4>1. found'[r][1].own[Id(r)] = Row(r)
        BY <1>2, <3>2, QueryIsCurrent
      <4> QED
        BY <1>1, <3>2, <4>1 DEF Query, NoWrite, FoundRow, Row, Kind, Id
    <3>3. CASE GetHit(r)
      <4>1. task[r].key \notin tainted
        BY <1>2, <3>3 DEF GetHit
      <4>2. cache[task[r].key].value[1].own[Id(r)] = Row(r)
        BY <1>2, <2>2, <3>3, <4>1, HitIsCurrent
      <4>3. found'[r] = cache[task[r].key].value
        BY <1>1, <1>2, <3>3 DEF GetHit, Answer, Goto, RequestsInv, IsFcn
      <4> QED
        BY <1>1, <3>3, <4>2, <4>3 DEF GetHit, NoWrite, FoundRow, Row, Kind, Id
    <3> QED
      BY <1>1, <2>3, <3>1, <3>2, <3>3, WhereItGoes
  <2> QED
    BY <1>3, <2>2, <2>3
<1> QED
  BY <1>4, <1>5

LEMMA SerialKept ==
  ASSUME TypeInv, BornInv, CoherentInv, SerialInv, [Next]_vars
  PROVE  SerialInv'
<1> SUFFICES ASSUME NEW r \in Requests PROVE Undisturbed(r)'
  BY DEF SerialInv
<1>1. Undisturbed(r)
  BY DEF SerialInv
<1>2. ASSUME NEW s \in Requests, Steps(s) PROVE Undisturbed(r)'
  BY <1>1, <1>2, OthersDoNotDisturb, OwnStepsKeepUndisturbed
<1>3. ASSUME NEW key \in Keys, Expire(key) PROVE Undisturbed(r)'
  BY <1>1, <1>3 DEF Expire, NoWrite, NoAnswer, Undisturbed, Rivals, IsWriter, Busy, FoundRow, Row,
                    Kind, Id
<1>4. ASSUME UNCHANGED vars PROVE Undisturbed(r)'
  BY <1>1, <1>4 DEF vars, Undisturbed, Rivals, IsWriter, Busy, FoundRow, Row, Kind, Id
<1> QED
  BY <1>2, <1>3, <1>4, NextIsAStep

\* What an update that met nobody writes.
LEMMA UndisturbedWrite ==
  ASSUME TypeInv, SerialInv, NEW r \in Requests \ excused, pc[r] \in {"update", "insert"}, Steps(r),
         Row(r) # table'[Kind(r)][Id(r)]
  PROVE  /\ Row(r) # Gone
         /\ \A c \in Columns(Kind(r)) \ task[r].sets : table'[Kind(r)][Id(r)][c] = Row(r)[c]
<1>1. TablesInv /\ RequestsInv /\ PcFits(r)
  BY RequestFacts DEF TypeInv, RequestFits
<1>2. task[r].op = "update" /\ IsWriter(r) /\ pc[r] \in Running /\ Busy(r)
  BY <1>1 DEF PcFits, IsWriter, Running, Busy
<1>3. FoundRow(r) = Row(r)
  BY <1>2 DEF SerialInv, Undisturbed
<1>4. /\ FoundRow(r) # Gone /\ Kind(r) \in Kinds /\ Id(r) \in Ids(Kind(r))
      /\ Entity(r) \in Rows(Kind(r))
  BY <1>1, <1>2, EntityTyped, RequestFacts
<1>5. UpdateRow(r)
  <2>1. table' # table
    BY DEF Row
  <2> QED
    BY <1>2, <1>3, <1>4, <2>1
       DEF Steps, Progress, Start, GetHit, GetMiss, GetFails, Query, Fill, FillFails, Diff, InsertRow,
           RemoveRow, CreateProduct, CreateOrder, Invalidate, InvalidateFails, DbError, Crash, NoWrite
<1> DEFINE saved == [c \in Columns(Kind(r)) |-> IF c \in dirty[r] THEN Entity(r)[c] ELSE Row(r)[c]]
<1>6. Put(r, saved)
  BY <1>3, <1>4, <1>5 DEF UpdateRow
<1>7. saved \in Rows(Kind(r))
  <2>1. Row(r) \in Rows(Kind(r))
    BY <1>1, <1>3, <1>4 DEF TablesInv, TablesOK, Row
  <2> QED
    BY <1>4, <2>1 DEF Rows
<1>8. table'[Kind(r)][Id(r)] = saved
  <2>1. table'[Kind(r)] = [table[Kind(r)] EXCEPT ![Id(r)] = saved]
    BY <1>1, <1>4, <1>6, <1>7, PutTyped
  <2>2. table[Kind(r)] \in [Ids(Kind(r)) -> Rows(Kind(r)) \cup {Gone}]
    BY <1>1, <1>4 DEF TablesInv, TablesOK
  <2> HIDE DEF saved
  <2> QED
    BY <1>4, <2>1, <2>2
<1>9. \A c \in Columns(Kind(r)) \ task[r].sets : Entity(r)[c] = Row(r)[c]
  BY <1>3 DEF Entity, FoundRow
<1>10. \A c \in Columns(Kind(r)) \ task[r].sets : saved[c] = Row(r)[c]
  BY <1>9
<1> QED
  BY <1>3, <1>4, <1>8, <1>10

\* update() of OrderService and ProductService saves a whole entity, taken
\* from the cache if it is there. An update that overlaps no other writer of
\* its row and met no tainted entry still changes nothing but the columns of
\* its DTO, and never brings a removed row back.
THEOREM UpdatesSurvive == Spec => SerialUpdatesSurvive
<1> DEFINE Survives(r) ==
      pc[r] \in {"update", "insert"} /\ Row(r) # table'[Kind(r)][Id(r)] =>
         pc'[r] = pc[r] \/
         /\ Row(r) # Gone
         /\ \A c \in Columns(Kind(r)) \ task[r].sets : table'[Kind(r)][Id(r)][c] = Row(r)[c]
<1>1. ASSUME TypeInv, SerialInv, Next
      PROVE  \A r \in Requests \ excused : Survives(r)
  <2> SUFFICES ASSUME NEW r \in Requests \ excused PROVE Survives(r)
    OBVIOUS
  <2>1. RequestsInv
    BY <1>1 DEF TypeInv
  <2>2. CASE Steps(r)
    BY <1>1, <2>2, UndisturbedWrite
  <2>3. ASSUME NEW s \in Requests, s # r, Steps(s) PROVE pc'[r] = pc[r]
    BY <2>1, <2>3, OthersStay
  <2>4. ASSUME NEW key \in Keys, Expire(key) PROVE pc'[r] = pc[r]
    BY <2>4 DEF Expire
  <2> QED
    BY <1>1, <2>2, <2>3, <2>4 DEF Next, Steps
<1>2. TypeInv /\ SerialInv /\ [Next]_vars => [\A r \in Requests \ excused : Survives(r)]_vars
  BY <1>1
<1> QED
  BY <1>2, TypeInit, TypeKept, BornInit, BornKept, CoherentInit, CoherentInvKept, SerialInit,
     SerialKept, PTL DEF Spec, SerialUpdatesSurvive

=============================================================================
