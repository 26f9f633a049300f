---------------------------- MODULE AccessLayer ----------------------------
(***************************************************************************)
(* The paged and batch queries of database_access_layer over a chain that *)
(* grows and a reward queue that is submitted to and distributed from:    *)
(* get_blocks and get_blocks_with_virtual_operations, the get_range       *)
(* helper behind get_reward_queue_by_page, get_queue_submissions_with_pos *)
(* and the order-preserving get_balance helper of the for_accounts        *)
(* batch queries; and the asset lookups lookup_asset_symbol(s),           *)
(* get_issued_asset_record, check_issued_asset and check_issued_webeur    *)
(* over an asset index and issued-asset records that grow.  A query reads the committed state and changes nothing, *)
(* so the queries are operators and the properties quantify over their    *)
(* arguments; the actions are the writers the queries observe.            *)
(*                                                                         *)
(* A query that fails an FC_ASSERT returns Error; a query of an account   *)
(* that does not exist returns Null.  Positions are 0-based as in the     *)
(* code; TLA+ sequences are 1-based.                                      *)
(*                                                                         *)
(* An asset is named by its position k in the index (asset id 1.3.(k-1)). *)
(* DigitStrings are the query strings whose first character is a digit,  *)
(* and ParsedId gives what variant(s).as<asset_id_type>(0) makes of one:  *)
(* the object id [space, type, instance] it spells, or Malformed.  The    *)
(* conversion throws unless the id is in the asset space 1.3.             *)
(***************************************************************************)
EXTENDS Integers, Sequences, SequencesExt

CONSTANTS
    Accounts,        \* account ids a query may name
    Existing,        \* the accounts that exist
    Amounts,         \* cycle amounts of reward queue entries
    BlocksLimit,     \* the page limit of get_blocks (100 in the code)
    MaxElements,     \* MAX_ELEMENTS of get_range (100 in the code)
    MaxHead,         \* bound on the head block number
    MaxQueue,        \* bound on the reward queue length
    Symbols,         \* symbols an asset may be created with
    CoreSymbol, WebSymbol,
    QueryStrings,    \* strings a caller may look up
    DigitStrings,    \* those of them whose first character is a digit
    ParsedId,        \* DigitStrings -> [space, type, instance] \cup {Malformed}
    Malformed,
    UniqueIds,       \* unique_id values of issue requests
    MaxAssets,       \* bound on the size of the asset index
    Frequencies,     \* frequency locks of reward queue entries
    CycleAmounts,    \* balances of account_cycle_balance_objects
    Error, Null,
    Undefined        \* the value of dereferencing idx.end()

ASSUME AccessLayerAssumption ==
    /\ Existing \subseteq Accounts
    /\ BlocksLimit \in Nat \ {0} /\ MaxElements \in Nat \ {0}
    /\ MaxHead \in Nat /\ MaxQueue \in Nat
    /\ DigitStrings \subseteq QueryStrings
    /\ {CoreSymbol, WebSymbol} \subseteq Symbols
    /\ MaxAssets \in Nat
    /\ CycleAmounts \subseteq Nat

VARIABLES
    head,            \* _db.head_block_num(); blocks 1..head are stored
    queue,           \* the reward_queue_index in by_time order
    assets,          \* the asset_index in id order: k -> symbol
    issued,          \* the issued_asset_record_index: set of <<unique_id, k>>
    cycles           \* account_cycle_balance_index: account -> balance, or Null

vars == <<head, queue, assets, issued, cycles>>

Entries == [account : Existing, amount : Amounts, frequency : Frequencies]

MinOf(a, b) == IF a < b THEN a ELSE b

(* fetch_block_by_number(i) is valid for a stored block.                  *)
BlockStored(i) == i \in 1 .. head

(* The loop of get_blocks and of get_blocks_with_virtual_operations:      *)
(* end = start + count clamped to head, blocks start .. end-1, each of    *)
(* which must be retrievable; virtual adds the start > 0 assertion.       *)
BlocksPage(start, count, checkStart) ==
    LET end  == MinOf(start + count, head)
        nums == [i \in 1 .. (end - start) |-> start + i - 1]
    IN  IF \/ count = 0
           \/ count > BlocksLimit
           \/ checkStart /\ start = 0
           \/ start > head
           \/ \E i \in DOMAIN nums : ~BlockStored(nums[i])
        THEN Error
        ELSE nums

GetBlocks(start, count) == BlocksPage(start, count, FALSE)
GetBlocksWithVirtualOperations(start, count) == BlocksPage(start, count, TRUE)

(* Mutant: the size check of line 448 is strict.                          *)
GetRangeStrict(idx, from, amount) ==
    IF /\ Len(idx) > from
       /\ Len(idx) - from > amount
       /\ amount <= MaxElements
    THEN SubSeq(idx, from + 1, from + amount)
    ELSE Error

(* get_range: the three FC_ASSERTs, then the elements from .. from+amount-1. *)
GetRange(idx, from, amount) ==
    IF /\ Len(idx) > from
       /\ Len(idx) - from >= amount
       /\ amount <= MaxElements
    THEN SubSeq(idx, from + 1, from + amount)
    ELSE Error

GetRewardQueueByPage(from, amount) == GetRange(queue, from, amount)

(* Mutant: the position counts the entry itself.                           *)
SubmissionsWithPosOffByOne(a) ==
    IF a \notin Existing THEN Null
    ELSE LET mine == SelectSeq([i \in DOMAIN queue |-> i], LAMBDA i : queue[i].account = a)
         IN  [k \in DOMAIN mine |-> [pos |-> mine[k], entry |-> queue[mine[k]]]]

(* get_queue_submissions_with_pos: for each of the account's entries, its *)
(* distance from the start of the by_time index.                          *)
GetQueueSubmissionsWithPos(a) ==
    IF a \notin Existing THEN Null
    ELSE LET mine == SelectSeq([i \in DOMAIN queue |-> i], LAMBDA i : queue[i].account = a)
         IN  [k \in DOMAIN mine |-> [pos |-> mine[k] - 1, entry |-> queue[mine[k]]]]

(* get_balance: the getter applied to each id, in input order.            *)
GetBalance(ids, getter) == [i \in DOMAIN ids |-> getter[ids[i]]]

GetQueueSubmissionsWithPosForAccounts(ids) ==
    GetBalance(ids, [a \in {ids[i] : i \in DOMAIN ids} |->
                        [account |-> a, result |-> GetQueueSubmissionsWithPos(a)]])

(* get_free_cycle_balance: get_opt on the account's cycle balance object. *)
GetFreeCycleBalance(a) ==
    [account |-> a, result |-> IF a \in Existing /\ cycles[a] # Null THEN cycles[a] ELSE Null]

(* Mutant: equal_range of by_account is replaced by the whole index.      *)
GetAllCycleBalancesAllEntries(a) ==
    IF a \notin Existing THEN Null
    ELSE IF cycles[a] = Null THEN Undefined
    ELSE << [amount |-> cycles[a], frequency |-> 0] >> \o
         [k \in DOMAIN queue |-> [amount |-> queue[k].amount, frequency |-> queue[k].frequency]]

(* get_all_cycle_balances: Null for an unknown account; else the free     *)
(* balance with frequency 0, read with get, which dereferences find(id)   *)
(* unchecked (Undefined when the account has no cycle balance object),    *)
(* then (amount, frequency) of each of the account's queue entries.       *)
GetAllCycleBalances(a) ==
    IF a \notin Existing THEN Null
    ELSE IF cycles[a] = Null THEN Undefined
    ELSE LET mine == SelectSeq(queue, LAMBDA e : e.account = a)
         IN  << [amount |-> cycles[a], frequency |-> 0] >> \o
             [k \in DOMAIN mine |-> [amount |-> mine[k].amount, frequency |-> mine[k].frequency]]

GetFreeCycleBalancesForAccounts(ids) ==
    GetBalance(ids, [a \in {ids[i] : i \in DOMAIN ids} |-> GetFreeCycleBalance(a)])

GetAllCycleBalancesForAccounts(ids) ==
    GetBalance(ids, [a \in {ids[i] : i \in DOMAIN ids} |->
                        [account |-> a, result |-> GetAllCycleBalances(a)]])

WebAsset == 2        \* _db.get_web_asset_id(): created at genesis after CORE

(* variant(s).as<asset_id_type>(0): the position of the asset id a digit  *)
(* string spells, or Error when it is not an id of the asset space.       *)
AsAssetId(s) ==
    IF ParsedId[s] = Malformed \/ ParsedId[s].space # 1 \/ ParsedId[s].type # 3
    THEN Error
    ELSE ParsedId[s].instance + 1

(* Mutant: every string is looked up as a symbol.                         *)
GetAssetSymbolNoIds(s) ==
    IF \E k \in DOMAIN assets : assets[k] = s
    THEN CHOOSE k \in DOMAIN assets : assets[k] = s
    ELSE Null

(* get_asset_symbol: a non-empty string starting with a digit is an id,   *)
(* found with _db.find; any other string is looked up by symbol.          *)
GetAssetSymbol(s) ==
    IF s \in DigitStrings
    THEN LET k == AsAssetId(s)
         IN  IF k = Error THEN Error
             ELSE IF k \in DOMAIN assets THEN k ELSE Null
    ELSE IF \E k \in DOMAIN assets : assets[k] = s
         THEN CHOOSE k \in DOMAIN assets : assets[k] = s
         ELSE Null

LookupAssetSymbol(s) == GetAssetSymbol(s)

(* lookup_asset_symbols: std::transform over the strings; an exception    *)
(* thrown for one string ends the whole call.                             *)
LookupAssetSymbols(ss) ==
    IF \E i \in DOMAIN ss : GetAssetSymbol(ss[i]) = Error
    THEN Error
    ELSE [i \in DOMAIN ss |-> GetAssetSymbol(ss[i])]

(* get_issued_asset_record: find in by_unique_id_asset.                   *)
GetIssuedAssetRecord(uid, k) == <<uid, k>> \in issued

(* check_issued_asset: resolve the asset, then look for the record.       *)
CheckIssuedAsset(uid, s) ==
    LET r == LookupAssetSymbol(s)
    IN  IF r = Error THEN Error
        ELSE r # Null /\ GetIssuedAssetRecord(uid, r)

CheckIssuedWebeur(uid) == GetIssuedAssetRecord(uid, WebAsset)

(* An asset is created: its symbol is new and it takes the next id.       *)
CreateAsset(sym) ==
    /\ Len(assets) < MaxAssets
    /\ \A k \in DOMAIN assets : assets[k] # sym
    /\ assets' = Append(assets, sym)
    /\ UNCHANGED <<head, queue, issued, cycles>>

(* An issue request is applied: its issued_asset_record_object is made.   *)
RecordIssue(uid, k) ==
    /\ <<uid, k>> \notin issued
    /\ issued' = issued \cup {<<uid, k>>}
    /\ UNCHANGED <<head, queue, assets, cycles>>

(* An operation outside the access layer creates or changes the account's *)
(* cycle balance object.                                                  *)
UpdateCycleBalance(a, v) ==
    /\ cycles' = [cycles EXCEPT ![a] = v]
    /\ UNCHANGED <<head, queue, assets, issued>>

(* A block is produced and becomes the head.                               *)
PushBlock ==
    /\ head < MaxHead
    /\ head' = head + 1
    /\ UNCHANGED <<queue, assets, issued, cycles>>

(* A cycle submission enters the reward queue at its end (by_time).       *)
SubmitToQueue(e) ==
    /\ Len(queue) < MaxQueue
    /\ queue' = Append(queue, e)
    /\ UNCHANGED <<head, assets, issued, cycles>>

(* The oldest submission is paid out and leaves the queue.                *)
Distribute ==
    /\ queue # <<>>
    /\ queue' = Tail(queue)
    /\ UNCHANGED <<head, assets, issued, cycles>>

Init ==
    /\ head = 0
    /\ queue = <<>>
    /\ assets = <<CoreSymbol, WebSymbol>>
    /\ issued = {}
    /\ cycles = [a \in Existing |-> Null]

Next ==
    \/ PushBlock
    \/ \E e \in Entries : SubmitToQueue(e)
    \/ Distribute
    \/ \E sym \in Symbols : CreateAsset(sym)
    \/ \E uid \in UniqueIds, k \in DOMAIN assets : RecordIssue(uid, k)
    \/ \E a \in Existing, v \in CycleAmounts : UpdateCycleBalance(a, v)

Spec == Init /\ [][Next]_vars

-----------------------------------------------------------------------------
(* get_queue_submissions_with_pos_for_accounts, asked for every account   *)
(* id in some order, answers in that order with a null result exactly for *)
(* the accounts that do not exist (spec 4.5), lists each account's queue  *)
(* entries, and every position it reports is where                        *)
(* get_reward_queue_by_page finds that entry: the position computed by    *)
(* projecting the by_account iterator into by_time agrees with paging.    *)
SubmissionPositionsAgreeWithPages ==
    LET ids == SetToSeq(Accounts)
        res == GetQueueSubmissionsWithPosForAccounts(ids)
    IN  \A i \in DOMAIN ids :
            /\ res[i].account = ids[i]
            /\ (res[i].result = Null) = (ids[i] \notin Existing)
            /\ res[i].result # Null =>
                   /\ Len(res[i].result) =
                          Len(SelectSeq(queue, LAMBDA e : e.account = ids[i]))
                   /\ \A k \in DOMAIN res[i].result :
                          GetRewardQueueByPage(res[i].result[k].pos, 1)
                              = << res[i].result[k].entry >>

(* Paging through the reward queue with any page size up to MAX_ELEMENTS, *)
(* a full page at a time and a last page that ends exactly at the size,   *)
(* is never rejected (spec 4.5: from < size and from + amount <= size are *)
(* accepted) and the pages put together are the queue.                    *)
PagesCoverQueue ==
    \A k \in 1 .. MaxElements :
        LET n     == (Len(queue) + k - 1) \div k
            pages == [j \in 1 .. n |->
                         GetRewardQueueByPage((j - 1) * k, MinOf(k, Len(queue) - (j - 1) * k))]
        IN  /\ \A j \in 1 .. n : pages[j] # Error
            /\ FlattenSeq(pages) = queue

(* Spec 6: get_blocks(start, count) with start at most the head height    *)
(* returns the stored blocks from start on, truncated to the available    *)
(* height: block numbers max(start, 1) .. min(start + count - 1, head).  *)
BlocksTruncatedToHead ==
    \A start \in 0 .. head, count \in 1 .. BlocksLimit :
        LET lo == IF start = 0 THEN 1 ELSE start
            hi == MinOf(start + count - 1, head)
        IN  GetBlocks(start, count) = [i \in 1 .. (hi - lo + 1) |-> lo + i - 1]

(* get_all_cycle_balances_for_accounts answers every account id in input  *)
(* order; for an account with a cycle balance object, its first entry is  *)
(* what get_free_cycle_balances_for_accounts reports with frequency 0,    *)
(* and the rest are the account's reward queue entries exactly as         *)
(* get_queue_submissions_with_pos_for_accounts lists them, so the two     *)
(* batch queries a wallet combines never disagree on a cycle balance.     *)
CycleBalancesAgree ==
    LET ids  == SetToSeq(Accounts)
        free == GetFreeCycleBalancesForAccounts(ids)
        all  == GetAllCycleBalancesForAccounts(ids)
        subs == GetQueueSubmissionsWithPosForAccounts(ids)
    IN  \A i \in DOMAIN ids :
            /\ all[i].account = ids[i] /\ free[i].account = ids[i]
            /\ (all[i].result = Null) = (ids[i] \notin Existing)
            /\ all[i].result \notin {Null, Undefined} =>
                   /\ Head(all[i].result) = [amount |-> free[i].result, frequency |-> 0]
                   /\ Tail(all[i].result) =
                          [k \in DOMAIN subs[i].result |->
                              [amount    |-> subs[i].result[k].entry.amount,
                               frequency |-> subs[i].result[k].entry.frequency]]

(* The id string of the asset at position k, among the query strings.     *)
IdString(k) ==
    CHOOSE s \in DigitStrings :
        ParsedId[s] # Malformed /\ ParsedId[s] = [space |-> 1, type |-> 3, instance |-> k - 1]

(* Every asset is found by lookup_asset_symbol both by its symbol and by  *)
(* its id string, and check_issued_asset answers the same through either  *)
(* name as get_issued_asset_record does; check_issued_webeur agrees with  *)
(* check_issued_asset on the web asset's symbol.                          *)
LookupsAgree ==
    /\ \A k \in DOMAIN assets :
           /\ LookupAssetSymbol(assets[k]) = k
           /\ LookupAssetSymbol(IdString(k)) = k
           /\ \A uid \in UniqueIds :
                  /\ CheckIssuedAsset(uid, assets[k]) = GetIssuedAssetRecord(uid, k)
                  /\ CheckIssuedAsset(uid, IdString(k)) = GetIssuedAssetRecord(uid, k)
    /\ \A uid \in UniqueIds : CheckIssuedWebeur(uid) = CheckIssuedAsset(uid, WebSymbol)

(* Spec 6: a batch lookup of symbols or ids never fails; it answers every *)
(* string in input order, with an absent entry where nothing matches.     *)
BatchLookupNeverFails ==
    \A s1, s2 \in QueryStrings :
        LET r == LookupAssetSymbols(<<s1, s2>>)
        IN  r # Error /\ Len(r) = 2

=============================================================================
