------------------------ MODULE PersistentCacheProofs ------------------------
(***************************************************************************)
(* PersistentCache for any sessions, texts and number of edits: when no    *)
(* edit falls between a parse and its stat and no row is written under a   *)
(* pending UPDATE, the cache never trusts a wrong row and every answer was *)
(* the file's text during the call.                                        *)
(***************************************************************************)
EXTENDS PersistentCache, TLAPS

(* An entry that says the truth about the file if its stat is the file's.  *)
(* An edit cannot spoil it: it brings a stat above every stat there is.    *)
Fresh(e) ==
  /\ e.stat <= clock
  /\ disk # Missing /\ e.current /\ e.stat = disk.stat => e.text = disk.text

DiskInv == disk # Missing => disk.stat <= clock
RowInv == row # NoEntry => Fresh(row)
HandLabels == {"stat", "hash", "touch", "load", "parsed", "store", "warmHash", "warmMeta"}

(* What each process holds at each label. *)
HandInv ==
  \A p \in Procs :
    /\ pc[p] \in HandLabels => held[p] \in Entry /\ held[p].stat <= clock
    /\ pc[p] = "stat" => held[p].current
    /\ pc[p] \in {"stat", "touch", "store", "warmMeta"} => Fresh(held[p])
    /\ pc[p] = "parsed" => disk # Missing /\ held[p].text = disk.text

(* The row the warmer is about to touch is still the one it looked at, or  *)
(* gone.                                                                   *)
WarmInv ==
  /\ warmSt <= clock
  /\ pc[Warmer] \in {"warmHash", "warmMeta"} /\ row # NoEntry =>
       row.text = held[Warmer].text /\ held[Warmer].current

SeenInv ==
  \A p \in Sessions :
    /\ pc[p] # "idle" => Now \in seen[p]
    /\ pc[p] \in {"touch", "load", "parsed", "store"} => held[p].text \in seen[p]

CacheInv == TypeOK /\ DiskInv /\ RowInv /\ HandInv /\ WarmInv /\ SeenInv /\ AnswerWasCurrent

-----------------------------------------------------------------------------
(* No sitting on a parse, no row under the UPDATE. *)
Quiet == Anomalies = {}

LEMMA CacheInit == Init => CacheInv
  BY ConstantsOK DEF Init, CacheInv, TypeOK, DiskInv, RowInv, HandInv, WarmInv, SeenInv,
     AnswerWasCurrent, Fresh, Leftover, Procs, WarmLabels, HandLabels

LEMMA CallKeeps ==
  ASSUME Quiet, CacheInv, NEW p \in Sessions, Call(p)
  PROVE  CacheInv'
<1>1. TypeOK'
  BY DEF CacheInv, world, Now, Goto, TypeOK, Version, SessionLabels, Call
<1>2. DiskInv'
  BY DEF CacheInv, world, DiskInv, Call
<1>3. RowInv'
  BY DEF CacheInv, world, Fresh, RowInv, Call
<1>4. HandInv'
  BY DEF CacheInv, world, Fresh, Goto, HandInv, HandLabels, Call
<1>5. WarmInv'
  BY DEF CacheInv, world, Goto, WarmInv, Call
<1>6. SeenInv'
  BY DEF CacheInv, world, Now, Goto, SeenInv, TypeOK, Call
<1>7. AnswerWasCurrent'
  BY DEF CacheInv, AnswerWasCurrent, Call
<1> QED
  BY <1>1, <1>2, <1>3, <1>4, <1>5, <1>6, <1>7 DEF CacheInv

LEMMA LookupKeeps ==
  ASSUME Quiet, CacheInv, NEW p \in Sessions, Lookup(p)
  PROVE  CacheInv'
<1>1. TypeOK'
  BY DEF CacheInv, world, Goto, With, TypeOK, SessionLabels, Lookup
<1>2. DiskInv'
  BY DEF CacheInv, world, DiskInv, Lookup
<1>3. RowInv'
  BY DEF CacheInv, world, Fresh, RowInv, Lookup
<1>4. HandInv'
  BY DEF CacheInv, world, Fresh, Goto, With, HandInv, RowInv, HandLabels, TypeOK, Lookup
<1>5. WarmInv'
  BY DEF CacheInv, world, Goto, With, Procs, WarmInv, TypeOK, Lookup
<1>6. SeenInv'
  BY DEF CacheInv, world, Now, Goto, With, Procs, SeenInv, TypeOK, Lookup
<1>7. AnswerWasCurrent'
  BY DEF CacheInv, AnswerWasCurrent, Lookup
<1> QED
  BY <1>1, <1>2, <1>3, <1>4, <1>5, <1>6, <1>7 DEF CacheInv

LEMMA StatKeeps ==
  ASSUME Quiet, CacheInv, NEW p \in Sessions, Stat(p)
  PROVE  CacheInv'
<1>1. TypeOK'
  BY DEF CacheInv, world, Goto, With, TypeOK, Version, Entry, SessionLabels, HandInv,
     HandLabels, Stat
<1>2. DiskInv'
  BY DEF CacheInv, world, DiskInv, Stat
<1>3. RowInv'
  BY DEF CacheInv, world, Fresh, RowInv, Stat
<1>4. HandInv'
  BY DEF CacheInv, world, Fresh, Goto, With, HandInv, HandLabels, DiskInv, TypeOK,
     Entry, Version, Stat
<1>5. WarmInv'
  BY DEF CacheInv, world, Goto, With, Procs, WarmInv, TypeOK, Stat
<1>6. SeenInv'
  BY DEF CacheInv, world, Now, Fresh, Goto, With, Procs, SeenInv, HandInv, TypeOK, Stat
<1>7. AnswerWasCurrent'
  BY DEF CacheInv, AnswerWasCurrent, Stat
<1> QED
  BY <1>1, <1>2, <1>3, <1>4, <1>5, <1>6, <1>7 DEF CacheInv

LEMMA HashKeeps ==
  ASSUME Quiet, CacheInv, NEW p \in Sessions, Hash(p)
  PROVE  CacheInv'
<1>1. TypeOK'
  BY DEF CacheInv, world, Goto, TypeOK, SessionLabels, Hash
<1>2. DiskInv'
  BY DEF CacheInv, world, DiskInv, Hash
<1>3. RowInv'
  BY DEF CacheInv, world, Fresh, RowInv, Hash
<1>4. HandInv'
  BY DEF CacheInv, world, Fresh, Goto, HandInv, HandLabels, Hash, HashMatches
<1>5. WarmInv'
  BY DEF CacheInv, world, Goto, WarmInv, Hash
<1>6. SeenInv'
  BY DEF CacheInv, world, Now, Goto, SeenInv, Hash, HashMatches
<1>7. AnswerWasCurrent'
  BY DEF CacheInv, AnswerWasCurrent, Hash
<1> QED
  BY <1>1, <1>2, <1>3, <1>4, <1>5, <1>6, <1>7 DEF CacheInv

LEMMA TouchKeeps ==
  ASSUME Quiet, CacheInv, NEW p \in Sessions, Touch(p)
  PROVE  CacheInv'
<1>1. TypeOK'
  BY DEF CacheInv, world, Goto, Procs, TypeOK, SessionLabels, Touch, Writes
<1>2. DiskInv'
  BY DEF CacheInv, world, DiskInv, Touch
<1>3. RowInv'
  BY DEF CacheInv, world, Fresh, Procs, RowInv, HandInv, Touch, Writes
<1>4. HandInv'
  BY DEF CacheInv, world, Fresh, Goto, HandInv, HandLabels, Touch
<1>5. WarmInv'
  BY DEF Quiet, CacheInv, world, Goto, WarmInv, Touch, RowFree
<1>6. SeenInv'
  BY DEF CacheInv, world, Now, Goto, SeenInv, Touch
<1>7. AnswerWasCurrent'
  BY DEF CacheInv, AnswerWasCurrent, Touch
<1> QED
  BY <1>1, <1>2, <1>3, <1>4, <1>5, <1>6, <1>7 DEF CacheInv

LEMMA LoadKeeps ==
  ASSUME Quiet, CacheInv, NEW p \in Sessions, Load(p)
  PROVE  CacheInv'
<1>1. TypeOK'
  BY DEF CacheInv, world, Goto, With, Procs, TypeOK, Entry, SessionLabels, HandInv,
     HandLabels, Load
<1>2. DiskInv'
  BY DEF CacheInv, world, DiskInv, Load
<1>3. RowInv'
  BY DEF CacheInv, world, Fresh, RowInv, Load
<1>4. HandInv'
  BY DEF CacheInv, world, Fresh, Goto, With, HandInv, HandLabels, TypeOK, Load
<1>5. WarmInv'
  BY DEF CacheInv, world, Goto, With, Procs, WarmInv, TypeOK, Load
<1>6. SeenInv'
  BY DEF CacheInv, world, Now, Goto, With, Procs, SeenInv, TypeOK, Load
<1>7. AnswerWasCurrent'
  BY DEF CacheInv, AnswerWasCurrent, SeenInv, TypeOK, Load
<1> QED
  BY <1>1, <1>2, <1>3, <1>4, <1>5, <1>6, <1>7 DEF CacheInv

LEMMA EvictKeeps ==
  ASSUME Quiet, CacheInv, NEW p \in Sessions, Evict(p)
  PROVE  CacheInv'
<1>1. TypeOK'
  BY DEF CacheInv, world, Goto, With, TypeOK, SessionLabels, Evict, Writes
<1>2. DiskInv'
  BY DEF CacheInv, world, DiskInv, Evict
<1>3. RowInv'
  BY DEF CacheInv, world, Fresh, RowInv, Evict, Writes
<1>4. HandInv'
  BY DEF CacheInv, world, Fresh, Goto, With, HandInv, HandLabels, Evict
<1>5. WarmInv'
  BY DEF CacheInv, world, Goto, With, WarmInv, Evict, Writes
<1>6. SeenInv'
  BY DEF CacheInv, world, Now, Goto, With, SeenInv, Evict
<1>7. AnswerWasCurrent'
  BY DEF CacheInv, AnswerWasCurrent, Evict
<1> QED
  BY <1>1, <1>2, <1>3, <1>4, <1>5, <1>6, <1>7 DEF CacheInv

LEMMA ParseKeeps ==
  ASSUME Quiet, CacheInv, NEW p \in Sessions, Parse(p)
  PROVE  CacheInv'
<1>0. disk # Missing => Parsed(disk.text) \in Entry /\ Parsed(disk.text).text = disk.text
                          /\ Parsed(disk.text).stat = 0
  BY ConstantsOK DEF CacheInv, TypeOK, Parsed, Entry, Version
<1>a. 0 <= clock
  BY DEF CacheInv, TypeOK
<1>1. TypeOK'
  BY <1>0, <1>a DEF CacheInv, world, Goto, With, TypeOK, WarmLabels, Parse
<1>2. DiskInv'
  BY <1>0, <1>a DEF CacheInv, world, DiskInv, Parse
<1>3. RowInv'
  BY <1>0, <1>a DEF CacheInv, world, Fresh, RowInv, Parse
<1>4. HandInv'
  BY <1>0, <1>a DEF CacheInv, world, Fresh, Goto, With, HandInv, HandLabels, TypeOK,
     Parse
<1>5. WarmInv'
  BY <1>0, <1>a DEF CacheInv, world, Goto, With, Procs, WarmInv, TypeOK, Parse
<1>6. SeenInv'
  BY <1>0, <1>a DEF CacheInv, world, Now, Goto, With, Procs, SeenInv, TypeOK, Parse
<1>7. AnswerWasCurrent'
  BY <1>0, <1>a DEF CacheInv, AnswerWasCurrent, Parse
<1> QED
  BY <1>1, <1>2, <1>3, <1>4, <1>5, <1>6, <1>7 DEF CacheInv

LEMMA StatParsedKeeps ==
  ASSUME Quiet, CacheInv, NEW p \in Procs, StatParsed(p)
  PROVE  CacheInv'
<1>1. TypeOK'
  BY DEF CacheInv, world, NowStat, Goto, With, TypeOK, Version, Entry, WarmLabels,
     HandInv, HandLabels, StatParsed
<1>2. DiskInv'
  BY DEF CacheInv, world, DiskInv, StatParsed
<1>3. RowInv'
  BY DEF CacheInv, world, Fresh, RowInv, StatParsed
<1>4. HandInv'
  BY DEF CacheInv, world, NowStat, Fresh, Goto, With, HandInv, HandLabels, DiskInv,
     TypeOK, Entry, Version, StatParsed
<1>5. WarmInv'
  BY DEF CacheInv, world, Goto, With, WarmInv, StatParsed
<1>6. SeenInv'
  BY DEF CacheInv, world, Now, Goto, With, SeenInv, StatParsed
<1>7. AnswerWasCurrent'
  BY DEF CacheInv, AnswerWasCurrent, StatParsed
<1> QED
  BY <1>1, <1>2, <1>3, <1>4, <1>5, <1>6, <1>7 DEF CacheInv

LEMMA StoreKeeps ==
  ASSUME Quiet, CacheInv, NEW p \in Sessions, Store(p)
  PROVE  CacheInv'
<1>1. TypeOK'
  BY DEF CacheInv, world, Goto, With, Procs, TypeOK, Entry, WarmLabels, HandInv,
     HandLabels, Store, Writes
<1>2. DiskInv'
  BY DEF CacheInv, world, DiskInv, Store
<1>3. RowInv'
  BY DEF CacheInv, world, Fresh, Procs, RowInv, HandInv, Store, Writes
<1>4. HandInv'
  BY DEF CacheInv, world, Fresh, Goto, With, HandInv, HandLabels, TypeOK, Store
<1>5. WarmInv'
  BY DEF Quiet, CacheInv, world, Goto, With, WarmInv, Store, RowFree
<1>6. SeenInv'
  BY DEF CacheInv, world, Now, Goto, With, SeenInv, TypeOK, Store
<1>7. AnswerWasCurrent'
  BY DEF CacheInv, AnswerWasCurrent, SeenInv, Store
<1> QED
  BY <1>1, <1>2, <1>3, <1>4, <1>5, <1>6, <1>7 DEF CacheInv

LEMMA RestartKeeps ==
  ASSUME Quiet, CacheInv, NEW p \in Sessions, Restart(p)
  PROVE  CacheInv'
<1>1. TypeOK'
  BY DEF CacheInv, world, Goto, With, TypeOK, WarmLabels, Restart
<1>2. DiskInv'
  BY DEF CacheInv, world, DiskInv, Restart
<1>3. RowInv'
  BY DEF CacheInv, world, Fresh, RowInv, Restart
<1>4. HandInv'
  BY DEF CacheInv, world, Fresh, Goto, With, HandInv, HandLabels, TypeOK, Restart
<1>5. WarmInv'
  BY ConstantsOK DEF CacheInv, world, Goto, With, WarmInv, Restart
<1>6. SeenInv'
  BY DEF CacheInv, world, Now, Goto, With, Procs, SeenInv, TypeOK, Restart
<1>7. AnswerWasCurrent'
  BY DEF CacheInv, AnswerWasCurrent, TypeOK, Restart
<1> QED
  BY <1>1, <1>2, <1>3, <1>4, <1>5, <1>6, <1>7 DEF CacheInv

LEMMA WarmScanKeeps ==
  ASSUME Quiet, CacheInv, WarmScan
  PROVE  CacheInv'
<1>1. TypeOK'
  BY DEF CacheInv, world, Goto, TypeOK, WarmLabels, WarmScan
<1>2. DiskInv'
  BY DEF CacheInv, world, DiskInv, WarmScan
<1>3. RowInv'
  BY DEF CacheInv, world, Fresh, RowInv, WarmScan
<1>4. HandInv'
  BY DEF CacheInv, world, Fresh, Goto, HandInv, HandLabels, WarmScan
<1>5. WarmInv'
  BY DEF CacheInv, world, Goto, WarmInv, WarmScan
<1>6. SeenInv'
  BY ConstantsOK DEF CacheInv, world, Now, Goto, SeenInv, WarmScan
<1>7. AnswerWasCurrent'
  BY DEF CacheInv, AnswerWasCurrent, WarmScan
<1> QED
  BY <1>1, <1>2, <1>3, <1>4, <1>5, <1>6, <1>7 DEF CacheInv

LEMMA WarmCleanupKeeps ==
  ASSUME Quiet, CacheInv, WarmCleanup
  PROVE  CacheInv'
<1>1. TypeOK'
  BY DEF CacheInv, world, Goto, TypeOK, WarmLabels, WarmCleanup, Writes
<1>2. DiskInv'
  BY DEF CacheInv, world, DiskInv, WarmCleanup
<1>3. RowInv'
  BY DEF CacheInv, world, Fresh, RowInv, WarmCleanup, Writes
<1>4. HandInv'
  BY DEF CacheInv, world, Fresh, Goto, HandInv, HandLabels, WarmCleanup
<1>5. WarmInv'
  BY DEF CacheInv, world, Goto, WarmInv, WarmCleanup
<1>6. SeenInv'
  BY DEF CacheInv, world, Now, Goto, SeenInv, WarmCleanup
<1>7. AnswerWasCurrent'
  BY DEF CacheInv, AnswerWasCurrent, WarmCleanup
<1> QED
  BY <1>1, <1>2, <1>3, <1>4, <1>5, <1>6, <1>7 DEF CacheInv

LEMMA WarmStatKeeps ==
  ASSUME Quiet, CacheInv, WarmStat
  PROVE  CacheInv'
<1>1. TypeOK'
  BY ConstantsOK DEF CacheInv, world, NowStat, Goto, Procs, TypeOK, Version, WarmLabels,
     WarmStat
<1>2. DiskInv'
  BY DEF CacheInv, world, DiskInv, WarmStat
<1>3. RowInv'
  BY DEF CacheInv, world, Fresh, RowInv, WarmStat
<1>4. HandInv'
  BY DEF CacheInv, world, Fresh, Goto, HandInv, HandLabels, WarmStat
<1>5. WarmInv'
  BY DEF CacheInv, world, NowStat, Goto, WarmInv, TypeOK, DiskInv, WarmStat
<1>6. SeenInv'
  BY DEF CacheInv, world, Now, Goto, SeenInv, WarmStat
<1>7. AnswerWasCurrent'
  BY DEF CacheInv, AnswerWasCurrent, WarmStat
<1> QED
  BY <1>1, <1>2, <1>3, <1>4, <1>5, <1>6, <1>7 DEF CacheInv

LEMMA WarmLookKeeps ==
  ASSUME Quiet, CacheInv, WarmLook
  PROVE  CacheInv'
<1>1. TypeOK'
  BY ConstantsOK DEF CacheInv, world, Goto, With, TypeOK, Entry, WarmLabels, WarmLook
<1>2. DiskInv'
  BY DEF CacheInv, world, DiskInv, WarmLook
<1>3. RowInv'
  BY DEF CacheInv, world, Fresh, RowInv, WarmLook
<1>4. HandInv'
  BY DEF CacheInv, world, Fresh, Goto, With, HandInv, HandLabels, TypeOK, Entry,
     WarmInv, WarmLook
<1>5. WarmInv'
  BY DEF CacheInv, world, Goto, With, WarmInv, TypeOK, Entry, WarmLook
<1>6. SeenInv'
  BY DEF CacheInv, world, Now, Goto, With, Procs, SeenInv, TypeOK, WarmLook
<1>7. AnswerWasCurrent'
  BY DEF CacheInv, AnswerWasCurrent, WarmLook
<1> QED
  BY <1>1, <1>2, <1>3, <1>4, <1>5, <1>6, <1>7 DEF CacheInv

LEMMA WarmHashKeeps ==
  ASSUME Quiet, CacheInv, WarmHash
  PROVE  CacheInv'
<1>1. TypeOK'
  BY DEF CacheInv, world, Goto, With, TypeOK, WarmLabels, WarmHash
<1>2. DiskInv'
  BY DEF CacheInv, world, DiskInv, WarmHash
<1>3. RowInv'
  BY DEF CacheInv, world, Fresh, RowInv, WarmHash
<1>4. HandInv'
  BY DEF CacheInv, world, Fresh, Goto, With, HandInv, HandLabels, TypeOK, WarmHash,
     HashMatches
<1>5. WarmInv'
  BY DEF CacheInv, world, Goto, With, WarmInv, TypeOK, WarmHash
<1>6. SeenInv'
  BY DEF CacheInv, world, Now, Goto, With, Procs, SeenInv, TypeOK, WarmHash
<1>7. AnswerWasCurrent'
  BY DEF CacheInv, AnswerWasCurrent, WarmHash
<1> QED
  BY <1>1, <1>2, <1>3, <1>4, <1>5, <1>6, <1>7 DEF CacheInv

LEMMA WarmParseKeeps ==
  ASSUME Quiet, CacheInv, WarmParse
  PROVE  CacheInv'
<1>0. disk # Missing => Parsed(disk.text) \in Entry /\ Parsed(disk.text).text = disk.text
                          /\ Parsed(disk.text).stat = 0
  BY ConstantsOK DEF CacheInv, TypeOK, Parsed, Entry, Version
<1>a. 0 <= clock
  BY DEF CacheInv, TypeOK
<1>1. TypeOK'
  BY <1>0, <1>a DEF CacheInv, world, Goto, With, TypeOK, WarmLabels, WarmParse
<1>2. DiskInv'
  BY <1>0, <1>a DEF CacheInv, world, DiskInv, WarmParse
<1>3. RowInv'
  BY <1>0, <1>a DEF CacheInv, world, Fresh, RowInv, WarmParse
<1>4. HandInv'
  BY <1>0, <1>a DEF CacheInv, world, Fresh, Goto, With, HandInv, HandLabels, TypeOK,
     WarmParse
<1>5. WarmInv'
  BY <1>0, <1>a DEF CacheInv, world, Goto, With, WarmInv, TypeOK, WarmParse
<1>6. SeenInv'
  BY <1>0, <1>a DEF CacheInv, world, Now, Goto, With, Procs, SeenInv, TypeOK, WarmParse
<1>7. AnswerWasCurrent'
  BY <1>0, <1>a DEF CacheInv, AnswerWasCurrent, WarmParse
<1> QED
  BY <1>1, <1>2, <1>3, <1>4, <1>5, <1>6, <1>7 DEF CacheInv

LEMMA WarmUpdateKeeps ==
  ASSUME Quiet, CacheInv, WarmUpdate
  PROVE  CacheInv'
<1>1. TypeOK'
  BY DEF CacheInv, world, Goto, With, Procs, TypeOK, Entry, WarmLabels, HandInv,
     HandLabels, WarmUpdate, Writes
<1>2. DiskInv'
  BY DEF CacheInv, world, DiskInv, WarmUpdate
<1>3. RowInv'
  BY DEF CacheInv, world, Fresh, Procs, RowInv, HandInv, WarmInv, TypeOK, Entry,
     WarmUpdate, Writes
<1>4. HandInv'
  BY DEF CacheInv, world, Fresh, Goto, With, HandInv, HandLabels, TypeOK, WarmUpdate
<1>5. WarmInv'
  BY DEF CacheInv, world, Goto, With, WarmInv, TypeOK, Entry, WarmUpdate, Writes
<1>6. SeenInv'
  BY DEF CacheInv, world, Now, Goto, With, SeenInv, WarmUpdate
<1>7. AnswerWasCurrent'
  BY DEF CacheInv, AnswerWasCurrent, WarmUpdate
<1> QED
  BY <1>1, <1>2, <1>3, <1>4, <1>5, <1>6, <1>7 DEF CacheInv

LEMMA WarmStoreKeeps ==
  ASSUME Quiet, CacheInv, WarmStore
  PROVE  CacheInv'
<1>1. TypeOK'
  BY DEF CacheInv, world, Goto, With, Procs, TypeOK, WarmLabels, WarmStore, Writes
<1>2. DiskInv'
  BY DEF CacheInv, world, DiskInv, WarmStore
<1>3. RowInv'
  BY DEF CacheInv, world, Fresh, Procs, RowInv, HandInv, WarmStore, Writes
<1>4. HandInv'
  BY DEF CacheInv, world, Fresh, Goto, With, HandInv, HandLabels, TypeOK, WarmStore
<1>5. WarmInv'
  BY DEF CacheInv, world, Goto, With, WarmInv, WarmStore
<1>6. SeenInv'
  BY ConstantsOK DEF CacheInv, world, Now, Goto, With, SeenInv, WarmStore
<1>7. AnswerWasCurrent'
  BY DEF CacheInv, AnswerWasCurrent, WarmStore
<1> QED
  BY <1>1, <1>2, <1>3, <1>4, <1>5, <1>6, <1>7 DEF CacheInv

LEMMA WarmCrashKeeps ==
  ASSUME Quiet, CacheInv, WarmCrash
  PROVE  CacheInv'
<1>1. TypeOK'
  BY ConstantsOK DEF CacheInv, world, Goto, With, Procs, TypeOK, WarmLabels, WarmCrash
<1>2. DiskInv'
  BY DEF CacheInv, world, DiskInv, WarmCrash
<1>3. RowInv'
  BY DEF CacheInv, world, Fresh, RowInv, WarmCrash
<1>4. HandInv'
  BY DEF CacheInv, world, Fresh, Goto, With, HandInv, HandLabels, TypeOK, WarmCrash
<1>5. WarmInv'
  BY DEF CacheInv, world, Goto, With, WarmInv, TypeOK, WarmCrash
<1>6. SeenInv'
  BY ConstantsOK DEF CacheInv, world, Now, Goto, With, SeenInv, WarmCrash
<1>7. AnswerWasCurrent'
  BY DEF CacheInv, AnswerWasCurrent, WarmCrash
<1> QED
  BY <1>1, <1>2, <1>3, <1>4, <1>5, <1>6, <1>7 DEF CacheInv

LEMMA EditKeeps ==
  ASSUME Quiet, CacheInv, NEW t \in Texts, Edit(t)
  PROVE  CacheInv'
<1>1. TypeOK'
  BY ConstantsOK DEF CacheInv, TypeOK, Version, Edit, Watch
<1>2. DiskInv'
  BY DEF CacheInv, DiskInv, TypeOK, Edit
<1>3. RowInv'
  BY DEF CacheInv, Fresh, RowInv, TypeOK, Entry, Edit
<1>4. HandInv'
  BY DEF Quiet, CacheInv, Fresh, HandInv, HandLabels, TypeOK, Entry, Edit, DiskFree
<1>5. WarmInv'
  BY DEF CacheInv, WarmInv, TypeOK, Edit
<1>6. SeenInv'
  BY ConstantsOK, NoEntryOK DEF CacheInv, Now, SeenInv, TypeOK, Version, Edit, Watch
<1>7. AnswerWasCurrent'
  BY DEF CacheInv, AnswerWasCurrent, Edit, Watch
<1> QED
  BY <1>1, <1>2, <1>3, <1>4, <1>5, <1>6, <1>7 DEF CacheInv

LEMMA DeleteKeeps ==
  ASSUME Quiet, CacheInv, Delete
  PROVE  CacheInv'
<1>1. TypeOK'
  BY DEF CacheInv, TypeOK, Delete, Watch
<1>2. DiskInv'
  BY DEF CacheInv, DiskInv, Delete
<1>3. RowInv'
  BY DEF CacheInv, Fresh, RowInv, Delete
<1>4. HandInv'
  BY DEF Quiet, CacheInv, Fresh, HandInv, Delete, DiskFree
<1>5. WarmInv'
  BY DEF CacheInv, WarmInv, Delete
<1>6. SeenInv'
  BY DEF CacheInv, Now, SeenInv, Delete, Watch
<1>7. AnswerWasCurrent'
  BY DEF CacheInv, AnswerWasCurrent, Delete, Watch
<1> QED
  BY <1>1, <1>2, <1>3, <1>4, <1>5, <1>6, <1>7 DEF CacheInv

LEMMA StutterKeeps == ASSUME CacheInv, UNCHANGED vars PROVE CacheInv'
  BY DEF CacheInv, TypeOK, DiskInv, RowInv, HandInv, WarmInv, SeenInv, AnswerWasCurrent,
     Fresh, Now, vars, world

LEMMA CacheStep ==
  ASSUME Quiet, CacheInv, [Next]_vars
  PROVE  CacheInv'
<1>1. ASSUME NEW p \in Sessions, Query(p) PROVE CacheInv'
  <2>1. p \in Procs
    BY DEF Procs
  <2> QED
    BY <1>1, <2>1, CallKeeps, LookupKeeps, StatKeeps, HashKeeps, TouchKeeps, LoadKeeps,
       EvictKeeps, ParseKeeps, StatParsedKeeps, StoreKeeps DEF Query
<1>2. ASSUME WarmStep PROVE CacheInv'
  <2>1. Warmer \in Procs
    BY DEF Procs
  <2> QED
    BY <1>2, <2>1, StatParsedKeeps, WarmScanKeeps, WarmCleanupKeeps, WarmStatKeeps,
       WarmLookKeeps, WarmHashKeeps, WarmParseKeeps, WarmUpdateKeeps, WarmStoreKeeps,
       WarmCrashKeeps DEF WarmStep
<1>3. ASSUME Environment PROVE CacheInv'
  BY <1>3, EditKeeps, DeleteKeeps DEF Environment
<1> QED
  BY <1>1, <1>2, <1>3, RestartKeeps, StutterKeeps DEF Next

(* Everything below holds of a quiet environment. *)
LEMMA CacheAlways == ASSUME Quiet PROVE Spec => []CacheInv
<1>1. CacheInv /\ [Next]_vars => CacheInv'
  BY CacheStep
<1> QED
  BY <1>1, CacheInit, PTL DEF Spec

(* Every variable keeps its type, for any number of sessions and edits:    *)
(* get_translation_unit and warm_one_file build only well-formed rows.     *)
THEOREM TypeCorrect == ASSUME Quiet PROVE Spec => []TypeOK
<1>1. CacheInv => TypeOK
  BY DEF CacheInv
<1> QED
  BY <1>1, CacheAlways, PTL

(* A row whose format, size and mtime the fast path accepts holds the      *)
(* file's own text.                                                        *)
THEOREM TrustIsJustified == ASSUME Quiet PROVE Spec => []TrustedRowFresh
<1>1. CacheInv => TrustedRowFresh
  BY DEF CacheInv, RowInv, Fresh, TrustedRowFresh, Trusted
<1> QED
  BY <1>1, CacheAlways, PTL

(* Each answer of get_translation_unit was the file's text at a moment of  *)
(* the call.                                                               *)
THEOREM AnswersAreCurrent == ASSUME Quiet PROVE Spec => []AnswerWasCurrent
<1>1. CacheInv => AnswerWasCurrent
  BY DEF CacheInv
<1> QED
  BY <1>1, CacheAlways, PTL
=============================================================================
