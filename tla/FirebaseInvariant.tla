------------------------- MODULE FirebaseInvariant -------------------------
(***************************************************************************)
(* What FirebaseProofs.tla proves about Firebase.tla is in terms of this:  *)
(* the parts of its invariants, and for each action what it leaves.        *)
(***************************************************************************)
EXTENDS Firebase

-----------------------------------------------------------------------------
(* What the variables hold.                                                *)

Id == 1 .. MaxRowId

\* One writer, many readers: the model that the code assumes.
OneWriter == \A c, d \in Writers : c = d

\* Rows of the server, of an update, and of one table of a client.
Row == [rev : Nat, table : Tables, value : Nat]
ServerRows == UNION {[ids -> Row] : ids \in SUBSET Id}
NewRows == UNION {[ids -> [table : Tables, value : Nat]] : ids \in SUBSET Id}
TableRows == UNION {[ids -> Nat] : ids \in SUBSET Id}

Version == [rev : Nat, rows : ServerRows]

Update == [rev : Nat, put : NewRows, gone : SUBSET Id, tables : SUBSET Tables,
           before : UNION {[ts -> TableRows] : ts \in SUBSET Tables},
           answer : {"none", "accepted", "refused", "failed"}, version : Nat]

\* An update writes rows of its tables only, and keeps their rows for a rollback.
UpdateOK(u) ==
    /\ \A id \in DOMAIN u.put : u.put[id].table \in u.tables
    /\ DOMAIN u.before = u.tables

Diff == [deleted : SUBSET Id, put : TableRows]
Task == UNION {[ts -> Diff] : ts \in SUBSET Tables}

Store == [revision : Nat \cup {-1}, tables : [Tables -> TableRows],
          removedRows : [Tables -> SUBSET Id], startAt : Int, tasks : Seq(Task)]

TypeInv ==
    /\ server \in Seq(Version) /\ Len(server) >= 1
    /\ status \in [Clients -> {"closed", "loading", "ready"}]
    /\ loaded \in [Clients -> SUBSET Tables]
    /\ listening \in [Clients -> BOOLEAN]
    /\ at \in [Clients -> Nat]
    /\ store \in [Clients -> Store]
    /\ cache \in [Clients -> [Tables -> TableRows]]
    /\ nextId \in [Clients -> Nat]
    /\ begun \in [Clients -> SUBSET SUBSET Tables]
    /\ sent \in [Clients -> Seq(Update)]
    /\ missed \in [Clients -> SUBSET (Tables \X Id)]
    /\ overtaken \in [Clients -> SUBSET Tables]
    /\ outOfStep \in BOOLEAN
    /\ updates \in Nat /\ crashes \in Nat

-----------------------------------------------------------------------------
(* Updates under way.                                                      *)

Ids(u) == DOMAIN u.put \cup u.gone

\* Updates that write or remove each row once.
Apart(q) ==
    /\ \A i \in DOMAIN q : DOMAIN q[i].put \cap q[i].gone = {}
    /\ \A i, j \in DOMAIN q : i # j => Ids(q[i]) \cap Ids(q[j]) = {}

\* A client that is not connected has nothing, and a reader sends nothing.
ClientOK(c) ==
    /\ at[c] \in 1 .. Len(server)
    /\ status[c] # "ready" => sent[c] = <<>> /\ store[c].tasks = <<>>
                              /\ ~listening[c] /\ cache[c] = NoRows /\ begun[c] = {}
    /\ status[c] = "ready" => nextId[c] >= 1
    /\ c \notin Writers => sent[c] = <<>>

ClientInv == \A c \in Clients : ClientOK(c)

\* Answers come in order, tables are locked until their update has settled; the
\* server has n versions.
SentOK(q, n) ==
    /\ \A i \in DOMAIN q :
          /\ UpdateOK(q[i])
          /\ q[i].answer = "accepted" => q[i].version \in 1 .. n
    /\ \A i, j \in DOMAIN q : i < j =>
          /\ q[j].answer # "none" => q[i].answer # "none"
          /\ q[j].answer = "failed" => q[i].answer = "failed"
          /\ q[i].tables \cap q[j].tables = {}

SentInv == \A c \in Clients : SentOK(sent[c], Len(server))

\* Locks exclude one another: those of transactions that have begun, and those of
\* updates.
BegunOK(locks, q) ==
    /\ \A s \in locks : \A j \in DOMAIN q : s \cap q[j].tables = {}
    /\ \A s, r \in locks : s # r => s \cap r = {}

BegunInv == \A c \in Clients : BegunOK(begun[c], sent[c])

Basics == TypeInv /\ ClientInv /\ SentInv /\ BegunInv

-----------------------------------------------------------------------------
(* Readers go forward.                                                     *)

\* In versions s values grow, to n; updates q have greater values than s.
Rising(s, n) ==
    \A v \in 1 .. Len(s) : \A id \in DOMAIN s[v].rows :
        /\ s[v].rows[id].value <= n
        /\ \A w \in v .. Len(s) : id \in DOMAIN s[w].rows =>
              s[v].rows[id].value <= s[w].rows[id].value

Newer(q, s, n) ==
    \A i \in 1 .. Len(q) : \A id \in DOMAIN q[i].put :
        /\ q[i].put[id].value <= n
        /\ q[i].answer = "none" =>
              /\ \A v \in 1 .. Len(s) : \A id2 \in DOMAIN s[v].rows :
                    s[v].rows[id2].value <= q[i].put[id].value
              /\ \A j \in i .. Len(q) : \A id2 \in DOMAIN q[j].put :
                    q[i].put[id].value <= q[j].put[id2].value

ValueInv == Rising(server, updates) /\ \A c \in Writers : Newer(sent[c], server, updates)

\* One of the first n versions s had a row with a value; each row; each of a task.
Had(s, id, value, n) ==
    \E v \in 1 .. n : id \in DOMAIN s[v].rows /\ s[v].rows[id].value = value

HadRows(s, n, rows) == \A id \in DOMAIN rows : Had(s, id, rows[id], n)

HadTask(s, n, rows, tasks, i, t) ==
    \A id \in DOMAIN tasks[i][t].put :
        /\ Had(s, id, tasks[i][t].put[id], n)
        /\ id \in DOMAIN rows[t] => rows[t][id] <= tasks[i][t].put[id]
        /\ \A j \in i .. Len(tasks) :
              t \in DOMAIN tasks[j] /\ id \in DOMAIN tasks[j][t].put =>
                  tasks[i][t].put[id] <= tasks[j][t].put[id]

HasSeen(free, s, n, rows, tasks) ==
    \A t \in free :
        /\ HadRows(s, n, rows[t])
        /\ \A i \in 1 .. Len(tasks) : t \in DOMAIN tasks[i] => HadTask(s, n, rows, tasks, i, t)

\* Tables of a client in which nothing was overtaken.
Free(c) == Tables \ overtaken[c]

\* What a reader has, or is about to get, comes from the versions it has seen.
SeenClient(c) ==
    /\ status[c] = "loading" => \A t \in Tables : HadRows(server, Len(server), store[c].tables[t])
    /\ HasSeen(Free(c), server, at[c], cache[c], store[c].tasks)

SeenInv == \A c \in Clients \ Writers : SeenClient(c)

-----------------------------------------------------------------------------
(* Versions of the server.                                                 *)

\* Two functions are the same at x.
SameAt(f, g, x) == (x \in DOMAIN f <=> x \in DOMAIN g) /\ (x \in DOMAIN f => f[x] = g[x])

\* Revisions of versions s grow, and tell which rows have changed since.
Tells(s) ==
    /\ \A v, w \in 1 .. Len(s) : v < w => s[v].rev < s[w].rev
    /\ \A w \in 1 .. Len(s) : \A id \in DOMAIN s[w].rows :
          /\ s[w].rows[id].rev <= s[w].rev
          /\ \A v \in 1 .. w : s[w].rows[id].rev <= s[v].rev =>
                id \in DOMAIN s[v].rows /\ s[v].rows[id] = s[w].rows[id]

VersionInv == ~outOfStep => Tells(server)

-----------------------------------------------------------------------------
(* What a reader has.                                                      *)

\* The same rows but for those with these ids.
SameBut(rows, rows2, t, gap) == \A id : <<t, id>> \notin gap => SameAt(rows, rows2, id)

HasRows(k, t, version, gap) == SameBut(k.tables[t], RowsOf(version.rows, t), t, gap)

Touches(diffs, t, id) == t \in DOMAIN diffs /\ id \in DOMAIN diffs[t].put \cup diffs[t].deleted

\* What a diff makes of a row is what there is.
Makes(diffs, t, id, rows) ==
    IF id \in DOMAIN diffs[t].put THEN id \in DOMAIN rows /\ rows[id] = diffs[t].put[id]
    ELSE id \notin DOMAIN rows

\* The tasks that wait make of a row of the cache that of the tables.
RowLeads(rows, tables, tasks, t, id) ==
    /\ (\A i \in 1 .. Len(tasks) : ~Touches(tasks[i], t, id)) => SameAt(rows[t], tables[t], id)
    /\ \A i \in 1 .. Len(tasks) :
          /\ Touches(tasks[i], t, id)
          /\ \A j \in i + 1 .. Len(tasks) : ~Touches(tasks[j], t, id)
          => Makes(tasks[i], t, id, tables[t])

Leads(free, rows, tables, tasks) ==
    \A t \in free : \A id \in Id : RowLeads(rows, tables, tasks, t, id)

LeadsClient(c) ==
    status[c] = "ready" => Leads(Free(c), cache[c], store[c].tables, store[c].tasks)

TaskInv == \A c \in Clients \ Writers : LeadsClient(c)

\* The tables of a reader that listens are those of the version it sees; before,
\* each is of some version since the revision it knows.
ReaderOK(c) ==
    /\ status[c] = "ready" =>
          store[c].startAt = store[c].revision + 1 /\ \A t \in Tables : store[c].removedRows[t] = {}
    /\ status[c] = "ready" /\ listening[c] =>
          /\ store[c].revision = server[at[c]].rev
          /\ \A t \in Tables : HasRows(store[c], t, server[at[c]], missed[c])
    /\ status[c] = "loading" => missed[c] = {} /\ \A t \in Tables : store[c].removedRows[t] = {}
    /\ status[c] # "closed" /\ ~listening[c] =>
          \E base \in 1 .. Len(server) :
              /\ store[c].revision = server[base].rev
              /\ \A t \in Tables : status[c] = "ready" \/ t \in loaded[c] =>
                    \E v \in base .. Len(server) : HasRows(store[c], t, server[v], missed[c])

ReaderInv == ~outOfStep => \A c \in Clients \ Writers : ReaderOK(c)

-----------------------------------------------------------------------------
(* What operators give, without EXCEPT and CHOOSE.                         *)

\* Where the j-th member of a sequence without its i-th one was before.
Before(j, i) == IF j < i THEN j ELSE j + 1

\* A sequence without its i-th member, by where the others were.
Without(p, s, i) ==
    /\ Len(p) = Len(s) - 1 /\ DOMAIN p = 1 .. Len(s) - 1
    /\ \A j \in 1 .. Len(s) - 1 :
          p[j] = s[Before(j, i)] /\ Before(j, i) \in 1 .. Len(s) /\ Before(j, i) # i
    /\ \A j, k \in 1 .. Len(s) - 1 : j < k => Before(j, i) < Before(k, i)
    /\ \A k \in 1 .. Len(s) : k # i => \E j \in 1 .. Len(s) - 1 : Before(j, i) = k

\* The rows of one table.
IsRowsOf(f, rows, t) ==
    /\ \A id : id \in DOMAIN f <=> id \in DOMAIN rows /\ rows[id].table = t
    /\ \A id : id \in DOMAIN f => f[id] = rows[id].value
    /\ f = [id \in DOMAIN f |-> f[id]]

\* Rows changed.
IsChanged(h, f, g, gone) ==
    /\ DOMAIN h = (DOMAIN f \ gone) \cup DOMAIN g
    /\ \A x : x \in DOMAIN g => h[x] = g[x]
    /\ \A x : x \in DOMAIN f /\ x \notin gone /\ x \notin DOMAIN g => h[x] = f[x]
    /\ h = [x \in DOMAIN h |-> h[x]]

\* A version has what an update made of its rows.
HasUpdate(version, u) ==
    /\ \A id \in DOMAIN u.put :
          /\ id \in DOMAIN version.rows
          /\ version.rows[id] = [rev |-> u.rev, table |-> u.put[id].table,
                                 value |-> u.put[id].value]
    /\ \A id \in u.gone : id \notin DOMAIN version.rows

\* What the updates leave of a version, one after the other.
LaidBy(laid, version, pending) ==
    /\ laid[0] = version
    /\ \A n \in 1 .. Len(pending) :
          laid[n] = IF pending[n].answer = "failed" THEN laid[n - 1]
                    ELSE Overlaid(laid[n - 1], pending[n])

\* What the first m updates leave of a version.
IsLaid(w, version, q, m) ==
    /\ w \in Version
    /\ \A i \in 1 .. m : q[i].answer # "failed" => HasUpdate(w, q[i])
    /\ \A id : (\A i \in 1 .. m : q[i].answer # "failed" => id \notin Ids(q[i]))
                  => SameAt(w.rows, version.rows, id)
    /\ \A n \in 1 .. m :
          q[n].answer # "failed" /\ (\A j \in n + 1 .. m : q[j].answer = "failed")
             => w.rev = q[n].rev
    /\ (\A n \in 1 .. m : q[n].answer = "failed") => w = version

IsView(w, version, q) == IsLaid(w, version, q, Len(q))

\* What a removed row adds.
IsRemoved(h, k, before, after) ==
    /\ h \in Store
    /\ h.revision = k.revision /\ h.startAt = k.startAt /\ h.tables = k.tables /\ h.tasks = k.tasks
    /\ \A t \in Tables : \A id :
          id \in h.removedRows[t]
          <=> \/ id \in k.removedRows[t]
              \/ id \in DOMAIN before.rows /\ id \notin DOMAIN after.rows
                 /\ before.rows[id].table = t

\* A row that comes with a change, and one that goes.
Comes(k, view, t, id) ==
    /\ id \in DOMAIN view.rows /\ view.rows[id].table = t /\ view.rows[id].rev >= k.startAt
    /\ \A u \in Tables : id \notin k.removedRows[u]

Goes(k, t, id) == id \in k.removedRows[t] /\ id \in DOMAIN k.tables[t]

\* The difference of a table.
IsDiff(d, k, view, t) ==
    /\ d \in Diff
    /\ \A id : id \in DOMAIN d.put <=> Comes(k, view, t, id)
    /\ \A id : id \in DOMAIN d.put => d.put[id] = view.rows[id].value
    /\ \A id : id \in d.deleted <=> Goes(k, t, id)

\* What a change makes of a row of a table.
RowAfter(new, k, view, t, id) ==
    \/ Comes(k, view, t, id) /\ id \in DOMAIN new /\ new[id] = view.rows[id].value
    \/ ~Comes(k, view, t, id) /\ Goes(k, t, id) /\ id \notin DOMAIN new
    \/ ~Comes(k, view, t, id) /\ ~Goes(k, t, id) /\ SameAt(new, k.tables[t], id)

\* The task for a change: the differences that are not empty.
IsTaskFor(diffs, k, view) ==
    /\ diffs \in Task
    /\ \A t \in DOMAIN diffs : IsDiff(diffs[t], k, view, t)
    /\ \A t \in Tables : t \notin DOMAIN diffs =>
          \A id : ~Comes(k, view, t, id) /\ ~Goes(k, t, id)

IsChange(h, k, view) ==
    /\ h \in Store
    /\ h.revision = view.rev /\ h.startAt = view.rev + 1
    /\ \A t \in Tables : h.removedRows[t] = {}
    /\ \A t \in Tables : \A id : RowAfter(h.tables[t], k, view, t, id)
    /\ \/ /\ h.tasks = k.tasks
          /\ \A t \in Tables : \A id : ~Comes(k, view, t, id) /\ ~Goes(k, t, id)
       \/ \E diffs : IsTaskFor(diffs, k, view) /\ h.tasks = Append(k.tasks, diffs)

Heeds(k, view) == view.rev >= k.startAt /\ view.rev # 0 /\ view.rev # k.revision

-----------------------------------------------------------------------------
(* What each step leaves.                                                  *)

\* Everything of the other clients stays.
OthersStay(c) ==
    \A d \in Clients : d # c =>
        /\ status'[d] = status[d] /\ loaded'[d] = loaded[d] /\ listening'[d] = listening[d]
        /\ at'[d] = at[d] /\ store'[d] = store[d] /\ cache'[d] = cache[d]
        /\ nextId'[d] = nextId[d] /\ sent'[d] = sent[d] /\ missed'[d] = missed[d]
        /\ begun'[d] = begun[d] /\ overtaken'[d] = overtaken[d]

\* What a client is told.
Told(c, k, before, after, h) ==
    /\ h \in Store
    /\ h = IF listening[c] THEN Events(k, before, after) ELSE k
    /\ store' = [store EXCEPT ![c] = h]
    /\ listening' = [listening EXCEPT ![c] = listening[c] /\ h.startAt = k.startAt]

\* The server, and what is counted and remembered, stays.
ServerStays == server' = server /\ updates' = updates /\ outOfStep' = outOfStep

\* Nobody gets or leaves a lock, nor overtakes anyone.
LocksStay(c) == begun'[c] = begun[c] /\ overtaken'[c] = overtaken[c]

IsConnect(c) ==
    /\ ServerStays /\ OthersStay(c)
    /\ status[c] = "closed" /\ status'[c] = "loading"
    /\ loaded'[c] = {} /\ missed'[c] = {} /\ store'[c] = NewStore(Now.rev)
    /\ begun'[c] = begun[c] /\ overtaken'[c] = {}
    /\ listening'[c] = listening[c] /\ at'[c] = at[c] /\ cache'[c] = cache[c]
    /\ nextId'[c] = nextId[c] /\ sent'[c] = sent[c]

IsReload(c, t) ==
    /\ ServerStays /\ OthersStay(c)
    /\ status[c] = "loading" /\ status'[c] = "loading"
    /\ t \notin loaded[c] /\ loaded'[c] = loaded[c] \cup {t}
    /\ store'[c].tables[t] = RowsOf(Now.rows, t)
    /\ \A u \in Tables : u # t => store'[c].tables[u] = store[c].tables[u]
    /\ store'[c].revision = store[c].revision
    /\ store'[c].removedRows = store[c].removedRows
    /\ store'[c].tasks = store[c].tasks
    /\ listening'[c] = listening[c] /\ at'[c] = at[c] /\ cache'[c] = cache[c]
    /\ nextId'[c] = nextId[c] /\ sent'[c] = sent[c] /\ missed'[c] = missed[c]
    /\ LocksStay(c)

IsLoaded(c) ==
    /\ ServerStays /\ OthersStay(c)
    /\ status[c] = "loading" /\ status'[c] = "ready"
    /\ loaded[c] = Tables /\ loaded'[c] = loaded[c]
    /\ ~listening'[c] /\ at'[c] = Len(server)
    /\ store'[c].revision = store[c].revision /\ store'[c].tables = store[c].tables
    /\ store'[c].startAt = store[c].revision + 1 /\ store'[c].tasks = store[c].tasks
    /\ \A t \in Tables : store'[c].removedRows[t] = {}
    /\ cache'[c] = store[c].tables
    /\ nextId'[c] >= 1
    /\ \A t \in Tables : \A id \in DOMAIN store[c].tables[t] : id < nextId'[c]
    /\ sent'[c] = sent[c] /\ missed'[c] = missed[c]
    /\ LocksStay(c)

IsFirstData(c, view, k) ==
    /\ ServerStays /\ OthersStay(c)
    /\ view = View(Now, sent[c]) /\ view \in Version
    /\ k = onChange_(store[c], Result(store[c], view)) /\ k \in Store
    /\ status[c] = "ready" /\ status'[c] = "ready" /\ ~listening[c]
    /\ loaded'[c] = loaded[c]
    /\ at'[c] = Len(server) /\ store'[c] = k
    /\ listening'[c] = (k.startAt = store[c].startAt)
    /\ missed'[c] = missed[c] \cup Gone(k.tables, view)
    /\ cache'[c] = cache[c] /\ nextId'[c] = nextId[c] /\ sent'[c] = sent[c]
    /\ LocksStay(c)

\* What a client is told, and that it remembers it.
WasTold(c, k, before, after) ==
    /\ before \in Version /\ after \in Version
    /\ store'[c] \in Store
    /\ store'[c] = IF listening[c] THEN Events(k, before, after) ELSE k
    /\ listening'[c] = (listening[c] /\ store'[c].startAt = k.startAt)

IsDeliver(c, version, before, after) ==
    /\ ServerStays /\ OthersStay(c)
    /\ before = View(server[at[c]], sent[c]) /\ after = View(server[version], sent[c])
    /\ status[c] = "ready" /\ status'[c] = "ready" /\ listening[c]
    /\ loaded'[c] = loaded[c]
    /\ at'[c] = version
    /\ WasTold(c, store[c], before, after)
    /\ missed'[c] = missed[c] \cup {r \in Gone(Contents(before.rows), after) :
                                        r[2] \in DOMAIN after.rows}
    /\ cache'[c] = cache[c] /\ nextId'[c] = nextId[c] /\ sent'[c] = sent[c]
    /\ LocksStay(c)

\* A table that a difference has been applied to.
Applied(new, old, diffs, t) ==
    /\ t \in DOMAIN diffs => IsChanged(new, old, diffs[t].put, diffs[t].deleted)
    /\ t \notin DOMAIN diffs => new = old

IsExternal(c, i) ==
    /\ ServerStays /\ OthersStay(c)
    /\ i \in 1 .. Len(store[c].tasks)
    /\ status[c] = "ready" /\ status'[c] = "ready"
    /\ \A t \in DOMAIN store[c].tasks[i] : \A j \in DOMAIN sent[c] : t \notin sent[c][j].tables
    /\ \A t \in DOMAIN store[c].tasks[i] : t \notin overtaken'[c] =>
          \A j \in 1 .. i - 1 : t \notin DOMAIN store[c].tasks[j]
    /\ overtaken[c] \subseteq overtaken'[c] /\ begun'[c] = begun[c]
    /\ \A t \in Tables : Applied(cache'[c][t], cache[c][t], store[c].tasks[i], t)
    /\ store'[c].tasks = RemoveAt(store[c].tasks, i)
    /\ store'[c].tables = store[c].tables /\ store'[c].revision = store[c].revision
    /\ store'[c].removedRows = store[c].removedRows /\ store'[c].startAt = store[c].startAt
    /\ listening'[c] = listening[c] /\ at'[c] = at[c] /\ loaded'[c] = loaded[c]
    /\ nextId'[c] = nextId[c] /\ sent'[c] = sent[c] /\ missed'[c] = missed[c]

\* A table after a transaction.
AfterTx(new, old, u, t) == IsChanged(new, old, RowsOf(u.put, t), u.gone)

\* The new ids, and rows of the cache, that an update writes.
FromCache(c, u, n) ==
    /\ \A id \in DOMAIN u.put :
          \/ nextId[c] <= id /\ id < n
          \/ id \in DOMAIN cache[c][u.put[id].table]
    /\ \A id \in u.gone : id \notin DOMAIN u.put \/ (nextId[c] <= id /\ id < n)
    /\ \A id \in u.gone : \E t \in u.tables : id \in DOMAIN cache[c][t]

\* Rows that an update writes and that were removed are in the gap.
WrittenAgain(u, next, view, gap) ==
    \A id \in DOMAIN u.put :
        \/ next <= id
        \/ id \in DOMAIN view.rows
        \/ \A t \in Tables : <<t, id>> \in gap

IsCommit(c, u, k, before, after) ==
    /\ server' = server /\ outOfStep' = outOfStep /\ updates' = updates + 1 /\ OthersStay(c)
    /\ u \in Update /\ UpdateOK(u)
    /\ u.rev = store[c].revision + 1 /\ u.answer = "none"
    /\ u.tables \in begun[c] /\ begun'[c] = begun[c] \ {u.tables}
    /\ overtaken[c] \subseteq overtaken'[c]
    /\ \A t \in u.tables :
          /\ \A j \in DOMAIN sent[c] : t \notin sent[c][j].tables
          /\ t \notin overtaken'[c] =>
                \A j \in DOMAIN store[c].tasks : t \notin DOMAIN store[c].tasks[j]
          /\ u.before[t] = cache[c][t]
    /\ \A id \in DOMAIN u.put : u.put[id].value = updates + 1
    /\ FromCache(c, u, nextId'[c])
    /\ nextId'[c] >= nextId[c]
    /\ status[c] = "ready" /\ status'[c] = "ready"
    /\ \A t \in Tables : AfterTx(cache'[c][t], cache[c][t], u, t)
    /\ k \in Store
    /\ k.revision = u.rev /\ k.removedRows = store[c].removedRows
    /\ k.startAt = store[c].startAt /\ k.tasks = store[c].tasks
    /\ \A t \in Tables : AfterTx(k.tables[t], store[c].tables[t], u, t)
    /\ before = View(server[at[c]], sent[c])
    /\ after = View(server[at[c]], Append(sent[c], u))
    /\ WasTold(c, k, before, after)
    /\ sent'[c] = Append(sent[c], u)
    /\ loaded'[c] = loaded[c] /\ at'[c] = at[c] /\ missed[c] \subseteq missed'[c]
    /\ WrittenAgain(u, nextId[c], before, missed'[c])

\* How a transaction finds the rows that it writes, and what it finds.
Finds(c, ins, upd, del, v, order, home, new, put, tables) ==
    /\ order = SetToSeq(ins) /\ nextId[c] >= 1 /\ nextId[c] + Len(order) <= MaxRowId + 1
    /\ \A id \in KnownIds(c) : home[id] \in Tables /\ id \in DOMAIN cache[c][home[id]]
    /\ DOMAIN new = nextId[c] .. nextId[c] + Len(order) - 1
    /\ \A id \in DOMAIN new : new[id] = [table |-> order[id - nextId[c] + 1], value |-> v]
    /\ DOMAIN put = DOMAIN new \cup upd /\ put = [id \in DOMAIN put |-> put[id]]
    /\ \A id \in upd : put[id] = [table |-> home[id], value |-> v]
    /\ \A id \in DOMAIN new \ upd : put[id] = new[id]
    /\ ins \subseteq tables
    /\ \A id \in upd \cup del : home[id] \in tables
    /\ \A t \in tables : t \in ins \/ \E id \in upd \cup del : t = home[id]

Found(c, put, upd, tables, del, n, v) ==
    /\ put \in NewRows /\ tables \in SUBSET Tables /\ del \in SUBSET Id /\ n \in Nat
    /\ upd \in SUBSET Id /\ \A id \in DOMAIN put : nextId[c] <= id \/ id \in upd
    /\ \A id \in DOMAIN put : put[id].table \in tables /\ put[id].value = v
    /\ \A id \in DOMAIN put :
          \/ nextId[c] <= id /\ id < n
          \/ id \in DOMAIN cache[c][put[id].table]
    /\ \A id \in del : id \notin DOMAIN put \/ (nextId[c] <= id /\ id < n)
    /\ \A id \in del : \E t \in tables : id \in DOMAIN cache[c][t]

\* A transaction in its parts.
CommitParts(c, ins, upd, del, put, tables, n, u, k) ==
    /\ missed' = [missed EXCEPT ![c] = missed[c] \cup
                     (Tables \X (upd \ DOMAIN View(server[at[c]], sent[c]).rows))]
    /\ status[c] = "ready" /\ tables \in begun[c]
    /\ begun' = [begun EXCEPT ![c] = begun[c] \ {tables}]
    /\ overtaken' = [overtaken EXCEPT ![c] =
                        overtaken[c] \cup (tables \cap Waiting(c, Len(store[c].tasks)))]
    /\ n <= MaxRowId + 1
    /\ nextId' = [nextId EXCEPT ![c] = n]
    /\ cache' = [cache EXCEPT ![c] = [t \in Tables |-> Changed(cache[c][t], RowsOf(put, t), del)]]
    /\ sent' = [sent EXCEPT ![c] = Append(sent[c], u)]
    /\ Hear(c, k, View(server[at[c]], sent[c]), View(server[at[c]], sent'[c]))
    /\ updates' = updates + 1
    /\ server' = server /\ status' = status /\ loaded' = loaded /\ at' = at
    /\ outOfStep' = outOfStep /\ crashes' = crashes

IsParts(c, ins, upd, del, order, home, new, put, tables, n, u, k) ==
    /\ order = SetToSeq(ins)
    /\ home = [id \in KnownIds(c) |-> CHOOSE t \in Tables : id \in DOMAIN cache[c][t]]
    /\ n = nextId[c] + Len(order)
    /\ new = [id \in nextId[c] .. nextId[c] + Len(order) - 1 |->
                 [table |-> order[id - nextId[c] + 1], value |-> updates + 1]]
    /\ put = [id \in DOMAIN new \cup upd |->
                 IF id \in upd THEN [table |-> CHOOSE t \in Tables : id \in DOMAIN cache[c][t],
                                     value |-> updates + 1]
                 ELSE new[id]]
    /\ tables = ins \cup {CHOOSE t \in Tables : id \in DOMAIN cache[c][t] : id \in upd \cup del}
    /\ u = [rev |-> store[c].revision + 1, put |-> put, gone |-> del, tables |-> tables,
            before |-> [t \in tables |-> cache[c][t]], answer |-> "none",
            version |-> 0]
    /\ k = [store[c] EXCEPT !.revision = store[c].revision + 1,
               !.tables = [t \in Tables |->
                              Changed(store[c].tables[t], RowsOf(put, t), del)]]
    /\ CommitParts(c, ins, upd, del, put, tables, n, u, k)

\* Updates that say the same of rows.
SameUpdate(u, w) ==
    /\ w.rev = u.rev /\ w.put = u.put /\ w.gone = u.gone /\ w.tables = u.tables
    /\ w.before = u.before

\* The i-th update gets an answer.
Answered(q2, q, i, answer) ==
    /\ i \in 1 .. Len(q) /\ Len(q2) = Len(q)
    /\ \A j \in 1 .. Len(q) : j # i => q2[j] = q[j]
    /\ q2[i].answer = answer /\ SameUpdate(q[i], q2[i])

Rest(c) ==
    /\ status'[c] = status[c] /\ loaded'[c] = loaded[c]

\* A step of the server for the i-th update.
IsAnswer(c, i, answer) ==
    /\ updates' = updates /\ outOfStep' = outOfStep /\ OthersStay(c)
    /\ sent[c][i].answer = "none"
    /\ \A j \in 1 .. i - 1 : sent[c][j].answer # "none"
    /\ Answered(sent'[c], sent[c], i, answer)
    /\ Rest(c) /\ listening'[c] = listening[c] /\ at'[c] = at[c]
    /\ store'[c] = store[c] /\ cache'[c] = cache[c] /\ nextId'[c] = nextId[c]
    /\ missed'[c] = missed[c] /\ LocksStay(c)

IsAccept(c, i) ==
    /\ IsAnswer(c, i, "accepted")
    /\ server' = Append(server, Overlaid(Now, sent[c][i]))
    /\ Overlaid(Now, sent[c][i]) \in Version
    /\ sent'[c][i].version = Len(server) + 1

IsRefuse(c, i) == IsAnswer(c, i, "refused") /\ server' = server

\* The client hears that its i-th update was accepted.
IsAccepted(c, i, before, after) ==
    /\ ServerStays /\ OthersStay(c)
    /\ sent[c][i].answer = "accepted"
    /\ \A j \in 1 .. i - 1 : sent[c][j].answer = "failed"
    /\ i \in 1 .. Len(sent[c]) /\ sent'[c] = RemoveAt(sent[c], i)
    /\ at'[c] \in {at[c], sent[c][i].version} /\ at'[c] >= at[c]
    /\ at'[c] >= sent[c][i].version
    /\ before = View(server[at[c]], sent[c])
    /\ after = View(server[at'[c]], RemoveAt(sent[c], i))
    /\ WasTold(c, store[c], before, after)
    /\ Rest(c) /\ cache'[c] = cache[c] /\ nextId'[c] = nextId[c] /\ missed'[c] = missed[c]
    /\ LocksStay(c)

\* The client hears that its i-th update was refused.
IsRefused(c, i, before, after, heard) ==
    /\ server' = server /\ updates' = updates /\ OthersStay(c)
    /\ outOfStep' = (outOfStep \/ i < Len(sent[c]))
    /\ sent[c][i].answer = "refused"
    /\ \A j \in 1 .. i - 1 : sent[c][j].answer = "failed"
    /\ Answered(sent'[c], sent[c], i, "failed")
    /\ before = View(server[at[c]], sent[c]) /\ before \in Version
    /\ after = View(server[at[c]], sent'[c]) /\ after \in Version
    /\ heard \in Store
    /\ heard = IF listening[c] THEN Events(store[c], before, after) ELSE store[c]
    /\ store'[c].revision = sent[c][i].rev - 1
    /\ store'[c].tables = heard.tables /\ store'[c].tasks = heard.tasks
    /\ store'[c].removedRows = heard.removedRows /\ store'[c].startAt = heard.startAt
    /\ listening'[c] => listening[c]
    /\ missed'[c] = missed[c] \cup (Tables \X sent[c][i].gone)
    /\ Rest(c) /\ at'[c] = at[c] /\ cache'[c] = cache[c] /\ nextId'[c] = nextId[c]
    /\ LocksStay(c)

\* The tables of a refused update are read again.
IsReloaded(c, i, view) ==
    /\ ServerStays /\ OthersStay(c)
    /\ i \in 1 .. Len(sent[c]) /\ sent[c][i].answer = "failed"
    /\ sent'[c] = RemoveAt(sent[c], i)
    /\ view = View(IF listening[c] THEN server[at[c]] ELSE Now, sent[c])
    /\ \A t \in Tables :
          /\ store'[c].tables[t] = IF t \in sent[c][i].tables THEN RowsOf(view.rows, t)
                                   ELSE store[c].tables[t]
          /\ cache'[c][t] = IF t \in sent[c][i].tables THEN sent[c][i].before[t]
                            ELSE cache[c][t]
    /\ store'[c].revision = store[c].revision /\ store'[c].tasks = store[c].tasks
    /\ store'[c].removedRows = store[c].removedRows /\ store'[c].startAt = store[c].startAt
    /\ Rest(c) /\ listening'[c] = listening[c] /\ at'[c] = at[c]
    /\ nextId'[c] = nextId[c] /\ missed'[c] = missed[c]
    /\ LocksStay(c)

IsCrash(c) ==
    /\ ServerStays /\ OthersStay(c)
    /\ status[c] # "closed" /\ status'[c] = "closed"
    /\ ~listening'[c] /\ sent'[c] = <<>> /\ cache'[c] = NoRows /\ store'[c] = NewStore(-1)
    /\ at'[c] = at[c] /\ nextId'[c] = nextId[c] /\ missed'[c] = missed[c]
    /\ begun'[c] = {} /\ overtaken'[c] = overtaken[c]

\* A transaction gets its locks, or leaves them; nothing else happens.
Idle(c) ==
    /\ ServerStays /\ OthersStay(c)
    /\ status'[c] = status[c] /\ loaded'[c] = loaded[c] /\ listening'[c] = listening[c]
    /\ at'[c] = at[c] /\ store'[c] = store[c] /\ cache'[c] = cache[c]
    /\ nextId'[c] = nextId[c] /\ sent'[c] = sent[c] /\ missed'[c] = missed[c]
    /\ overtaken'[c] = overtaken[c]

IsBegin(c, tables) ==
    /\ Idle(c)
    /\ status[c] = "ready"
    /\ \A t \in tables : /\ \A s \in begun[c] : t \notin s
                         /\ \A j \in DOMAIN sent[c] : t \notin sent[c][j].tables
    /\ begun'[c] = begun[c] \cup {tables}

IsEnd(c, tables) == Idle(c) /\ begun'[c] = begun[c] \ {tables}

\* A step of a client.
StepOf(c) ==
    \/ IsConnect(c)
    \/ \E t \in Tables : IsReload(c, t)
    \/ IsLoaded(c)
    \/ IsCrash(c)
    \/ \E view, k : IsFirstData(c, view, k)
    \/ \E version \in at[c] + 1 .. Len(server) : \E before, after :
          IsDeliver(c, version, before, after)
    \/ \E i \in DOMAIN store[c].tasks : IsExternal(c, i)
    \/ /\ c \in Writers
       /\ \/ \E u, k, before, after : IsCommit(c, u, k, before, after)
          \/ \E tables : IsBegin(c, tables) \/ IsEnd(c, tables)
          \/ \E i \in DOMAIN sent[c] :
                \/ IsAccept(c, i)
                \/ IsRefuse(c, i)
                \/ \E before, after : IsAccepted(c, i, before, after)
                \/ \E before, after, heard : IsRefused(c, i, before, after, heard)
                \/ \E view : IsReloaded(c, i, view)

-----------------------------------------------------------------------------
(* What a writer has, whose updates are q.                                 *)

\* A writer that connects reads what is there, and it does not change.
LoadOK(c) ==
    status[c] = "loading" =>
        /\ store[c].revision = Now.rev
        /\ \A t \in Tables : store[c].removedRows[t] = {}
        /\ \A t \in loaded[c] : store[c].tables[t] = RowsOf(Now.rows, t)

LoadInv == \A c \in Writers : LoadOK(c)

\* Nothing but rows of a table, and all of them but for those with these ids.
Close(rows, rows2, t, gap) ==
    /\ \A id \in DOMAIN rows : id \in DOMAIN rows2 /\ rows[id] = rows2[id]
    /\ \A id \in DOMAIN rows2 : id \in DOMAIN rows \/ <<t, id>> \in gap

\* The first f updates have failed, the others are laid over the version.
Split(q, f) ==
    /\ f \in 0 .. Len(q)
    /\ \A i \in 1 .. f : q[i].answer = "failed"
    /\ \A i \in f + 1 .. Len(q) : q[i].answer # "failed"

Live(q, i) == i \in 1 .. Len(q) /\ q[i].answer # "failed"

\* A view: each live update is in it, and nothing else changes.
Sees(view, version, q) ==
    /\ view \in Version
    /\ \A i : Live(q, i) => HasUpdate(view, q[i])
    /\ \A id : (\A i : Live(q, i) => id \notin Ids(q[i])) => SameAt(view.rows, version.rows, id)

\* The versions that a writer may see, from the n-th on: they differ in rows of
\* updates that were accepted and not answered.
Under(s, q, n) ==
    /\ n \in 1 .. Len(s)
    /\ Apart(q)
    /\ \A i \in 1 .. Len(q) : q[i].answer = "accepted" =>
          \A v \in q[i].version .. Len(s) : HasUpdate(s[v], q[i])
    /\ \A v \in n + 1 .. Len(s) :
          \E i \in 1 .. Len(q) : q[i].answer = "accepted" /\ q[i].version = v
    /\ \A v \in n .. Len(s) : \A id :
          (\A i \in 1 .. Len(q) : q[i].answer = "accepted" => id \notin Ids(q[i]))
             => SameAt(s[v].rows, s[Len(s)].rows, id)

\* The rows that an update writes, where they are, are in its tables.
AtHome(version, u) ==
    \A id \in Ids(u) : id \in DOMAIN version.rows => version.rows[id].table \in u.tables

\* The first f updates have failed; the server has come to the a-th.
Count(q, r, now, f, a) ==
    /\ Split(q, f)
    /\ \A i \in f + 1 .. Len(q) : q[i].rev = r - (Len(q) - i)
    /\ a \in f .. Len(q)
    /\ \A i \in a + 1 .. Len(q) : q[i].answer # "accepted"
    /\ a > f => q[a].answer = "accepted"
    /\ now = r - (Len(q) - a)

Homes(q, version) == \A i \in 1 .. Len(q) : AtHome(version, q[i])

Small(q, version, removed, next) ==
    /\ \A i \in 1 .. Len(q) : \A id \in Ids(q[i]) : id < next
    /\ \A id \in DOMAIN version.rows : id < next
    /\ \A t \in Tables : \A id \in removed[t] : id < next

FailedIn(q, t) == \E i \in 1 .. Len(q) : q[i].answer = "failed" /\ t \in q[i].tables
Copy(rows, view, t, gap) == Close(rows, RowsOf(view.rows, t), t, gap)

Copies(free, q, view, tables, gap) ==
    \A t \in free : ~FailedIn(q, t) => Copy(tables[t], view, t, gap)

Befores(free, q, version, gap) ==
    \A i \in 1 .. Len(q) : q[i].answer # "accepted" =>
        \A t \in q[i].tables \cap free : Copy(q[i].before[t], version, t, gap)

Removed(view, removed, gap) ==
    \A t \in Tables : \A id \in removed[t] :
        id \in DOMAIN view.rows => \A u \in Tables : <<u, id>> \in gap

DiffSays(diff, view, t, gap) ==
    /\ \A id \in DOMAIN diff.put : /\ id \in DOMAIN RowsOf(view.rows, t)
                                   /\ diff.put[id] = RowsOf(view.rows, t)[id]
    /\ \A id \in diff.deleted : id \in DOMAIN RowsOf(view.rows, t) => <<t, id>> \in gap

Unlocked(q, t) == \A j : Live(q, j) => t \notin q[j].tables

TasksSay(free, q, view, tasks, gap) ==
    \A i \in 1 .. Len(tasks) : \A t \in DOMAIN tasks[i] \cap free :
        DiffSays(tasks[i][t], view, t, gap) /\ Unlocked(q, t)

WriterState(free, s, n, q, k, rows, gap, next) ==
    /\ \E f \in 0 .. Len(q) : \E a \in 0 .. Len(q) : Count(q, k.revision, s[Len(s)].rev, f, a)
    /\ Under(s, q, n)
    /\ Homes(q, s[Len(s)])
    /\ Small(q, s[Len(s)], k.removedRows, next)
    /\ Copies(Tables, q, View(s[Len(s)], q), k.tables, gap)
    /\ Copies(free, q, View(s[Len(s)], q), rows, gap)
    /\ Befores(free, q, s[Len(s)], gap)
    /\ Removed(View(s[Len(s)], q), k.removedRows, gap)
    /\ TasksSay(free, q, View(s[Len(s)], q), k.tasks, gap)

Its(own, id, t, next) == id \in Id /\ own[id] = t /\ id < next
Mine(own, rows, t, next) == \A id \in DOMAIN rows : Its(own, id, t, next)

InPlace(own, version, next) ==
    \A id \in DOMAIN version.rows : Its(own, id, version.rows[id].table, next)

OwnsUpdate(own, u, next) ==
    /\ \A id \in DOMAIN u.put : Its(own, id, u.put[id].table, next)
    /\ \A id \in u.gone : \E t \in u.tables : Its(own, id, t, next)
    /\ \A t \in u.tables : Mine(own, u.before[t], t, next)

OwnsTasks(own, tasks, next) ==
    \A i \in 1 .. Len(tasks) : \A t \in DOMAIN tasks[i] : Mine(own, tasks[i][t].put, t, next)

Owned(own, s, n, q, tasks, rows, next) ==
    /\ \A v \in n .. Len(s) : InPlace(own, s[v], next)
    /\ \A i \in 1 .. Len(q) : OwnsUpdate(own, q[i], next)
    /\ OwnsTasks(own, tasks, next)
    /\ \A t \in Tables : Mine(own, rows[t], t, next)

WriterOK(c) ==
    WriterState(Free(c), server, at[c], sent[c], store[c], cache[c], missed[c], nextId[c])

\* No row id that it knows of is in two tables.
OwnsClient(c) ==
    \E own : Owned(own, server, at[c], sent[c], store[c].tasks, cache[c], nextId[c])

OwnInv == ~outOfStep => \A c \in Writers : status[c] = "ready" => OwnsClient(c)
WritersInv == ~outOfStep => \A c \in Writers : status[c] = "ready" => WriterOK(c)

\* All that holds together.
Together ==
    /\ Basics /\ VersionInv /\ TaskInv /\ ReaderInv /\ LoadInv
    /\ OwnInv /\ WritersInv
=============================================================================
