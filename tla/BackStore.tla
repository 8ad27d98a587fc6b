------------------------------ MODULE BackStore ------------------------------
(***************************************************************************)
(* What a data store keeps on its native medium, and the requests that    *)
(* lf.Table.put, lf.Table.remove and lf.index.RowId.serialize turn into,  *)
(* for the four stores a connection can choose: memory, IndexedDB with    *)
(* one record per row, IndexedDB in bundled mode with one record per page *)
(* of rows, and WebSQL.  A native store is a function from its keys to    *)
(* its records; a request is a record naming the store it is for.         *)
(***************************************************************************)
EXTENDS Integers, Sequences, SequencesExt

\* PageSize is 2^BUNDLE_EXPONENT, 512 in the code.
CONSTANTS Tables, PageSize

ASSUME PageSizeAssumption == PageSize \in Nat \ {0}

ASSUME TablesAssumption == IsFiniteSet(Tables)

Kinds == {"memory", "indexed_db", "bundled", "web_sql"}

\* Each table has a store for its rows and one for its persisted RowId index.
Data(t)  == <<"data", t>>
Index(t) == <<"index", t>>
Stores   == {Data(t) : t \in Tables} \cup {Index(t) : t \in Tables}

None == [x \in {} |-> x]

Put(f, x, v) == [y \in DOMAIN f \cup {x} |-> IF y = x THEN v ELSE f[y]]

Without(f, keys) == Restrict(f, DOMAIN f \ keys)

-----------------------------------------------------------------------------
(* Pages of the bundled mode.                                              *)

toPageId(rowId) == rowId \div PageSize

\* Mutant: the range reaches into the next page.
getPageRange_PastEnd(pageId) == (pageId * PageSize) .. ((pageId + 1) * PageSize)

getPageRange(pageId) == (pageId * PageSize) .. ((pageId + 1) * PageSize - 1)

PagesOf(rowIds) == {toPageId(id) : id \in rowIds}

\* The pages of a DATA table, rebuilt from the rows the cache holds now.
getDataTablePage(cached, rowIds) ==
    [p \in PagesOf(rowIds) |-> Restrict(cached, DOMAIN cached \cap getPageRange(p))]

\* The pages of an INDEX table: an index is always written whole.
getIndexTablePage(rowIds) == [p \in PagesOf(rowIds) |-> None]

-----------------------------------------------------------------------------
(* Native requests.                                                        *)

PutRequest(store, key, record) ==
    [op |-> "put", store |-> store, key |-> key, record |-> record]

\* IndexedDB takes one delete per key; nothing comes between them.
DeleteRequest(store, keys) == [op |-> "delete", store |-> store, keys |-> keys]

ClearRequest(store) == [op |-> "clear", store |-> store]

CountRequest(store, ids) == [op |-> "count", store |-> store, ids |-> ids]

Puts(store, records) ==
    LET keys == SetToSeq(DOMAIN records)
    IN  [i \in 1 .. Len(keys) |-> PutRequest(store, keys[i], records[keys[i]])]

\* What a native store holds after a request.
Applied(native, request) ==
    CASE request.op = "put"    -> Put(native, request.key, request.record)
      [] request.op = "delete" -> Without(native, request.keys)
      [] request.op = "clear"  -> None
      [] request.op = "count"  -> native

\* The requests that the callback of a request adds behind those queued.
FollowUp(native, request) ==
    IF request.op # "count" THEN <<>>
    ELSE IF request.ids = {} \/ Cardinality(DOMAIN native) = Cardinality(request.ids)
         THEN <<ClearRequest(request.store)>>
         ELSE <<DeleteRequest(request.store, request.ids)>>

-----------------------------------------------------------------------------
(* put and remove of the four tables.                                      *)

ObjectStorePut(store, rows) == Puts(store, rows)

ObjectStoreRemove(store, ids, disableClearTableOptimization) ==
    IF disableClearTableOptimization THEN <<DeleteRequest(store, ids)>>
    ELSE <<CountRequest(store, ids)>>

\* pages: what retrievePageFn_ returns for each page.
BundledPut(store, rows, pages) ==
    Puts(store, [p \in DOMAIN pages |->
        [id \in DOMAIN pages[p] \cup {r \in DOMAIN rows : toPageId(r) = p} |->
            IF id \in DOMAIN rows THEN rows[id] ELSE pages[p][id]]])

BundledRemove(store, ids, pages) ==
    IF ids = {} THEN <<ClearRequest(store)>>
    ELSE LET left  == [p \in DOMAIN pages |-> Without(pages[p], ids)]
             empty == {p \in DOMAIN left : DOMAIN left[p] = {}}
         IN  (IF empty = {} THEN <<>> ELSE <<DeleteRequest(store, empty)>>)
             \o Puts(store, Without(left, empty))

\* MemoryTable.removeSync and WebSqlTable.remove also read no ids as all rows.
MemoryRemove(store, ids, size) ==
    IF ids = {} \/ Cardinality(ids) = size THEN <<ClearRequest(store)>>
    ELSE <<DeleteRequest(store, ids)>>

WebSqlRemove(store, ids) ==
    IF ids = {} THEN <<ClearRequest(store)>> ELSE <<DeleteRequest(store, ids)>>

\* lf.Table.put of rows into the DATA store of a table.
PutRows(kind, t, rows, cached) ==
    IF DOMAIN rows = {} THEN <<>>
    ELSE IF kind = "bundled"
         THEN BundledPut(Data(t), rows, getDataTablePage(cached, DOMAIN rows))
         ELSE ObjectStorePut(Data(t), rows)

\* lf.Table.remove of rows from the DATA store of a table.
RemoveRows(kind, t, ids, size, cached, disableClear) ==
    CASE kind = "memory"     -> MemoryRemove(Data(t), ids, size)
      [] kind = "web_sql"    -> WebSqlRemove(Data(t), ids)
      [] kind = "indexed_db" -> ObjectStoreRemove(Data(t), ids, disableClear)
      [] kind = "bundled"    ->
            BundledRemove(Data(t), ids, getDataTablePage(cached, ids))

\* The RowId index as one row, of id 0, and the index such rows stand for.
ROW_ID == 0

Serialized(rowIds) == Put(None, ROW_ID, rowIds)

Deserialized(rows) == rows[ROW_ID]

\* remove([]) and put(serialize()) on the store of a persisted index.
RewriteIndex(kind, t, rowIds, size) ==
    CASE kind = "memory" ->
            MemoryRemove(Index(t), {}, size) \o ObjectStorePut(Index(t), Serialized(rowIds))
      [] kind = "web_sql" ->
            WebSqlRemove(Index(t), {}) \o ObjectStorePut(Index(t), Serialized(rowIds))
      [] kind = "indexed_db" ->
            ObjectStoreRemove(Index(t), {}, FALSE)
            \o ObjectStorePut(Index(t), Serialized(rowIds))
      [] kind = "bundled" ->
            BundledRemove(Index(t), {}, None)
            \o BundledPut(Index(t), Serialized(rowIds), getIndexTablePage({ROW_ID}))

-----------------------------------------------------------------------------
(* Reading a store back.                                                   *)

\* Mutant: the cursor is not continued, and only the first page is read.
BundledGetAll_FirstPage(pages) ==
    IF DOMAIN pages = {} THEN None ELSE pages[Min(DOMAIN pages)]

\* Every row of every page.
BundledGetAll(pages) ==
    [id \in UNION {DOMAIN pages[p] : p \in DOMAIN pages} |->
        pages[CHOOSE p \in DOMAIN pages : id \in DOMAIN pages[p]][id]]

\* get([]): every row of a store.
GetAll(kind, native) == IF kind = "bundled" THEN BundledGetAll(native) ELSE native

\* Mutant: the key of a page is taken for a row id.
LastRowId_Key(kind, native) == Max(DOMAIN native \cup {0})

\* The greatest row id of a store: its last key, or that of its last page.
LastRowId(kind, native) ==
    IF DOMAIN native = {} THEN 0
    ELSE IF kind = "bundled" THEN Max(DOMAIN native[Max(DOMAIN native)] \cup {0})
         ELSE Max(DOMAIN native)

scanRowId(kind, disk) == Max({LastRowId(kind, disk[Data(t)]) : t \in Tables} \cup {0})
=============================================================================
