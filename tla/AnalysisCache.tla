---------------------------- MODULE AnalysisCache ----------------------------
(***************************************************************************)
(* The cache of the analysis tool (analysis/cache.py): a Parquet shard and *)
(* a JSON sidecar per spawn, and a sentinel with the schema version and,   *)
(* as an index, a copy of the sidecars.  Each time the tool is called      *)
(* (analyze.py) it brings the cache up to date and reads the shards by     *)
(* groups.  The tool may die anywhere, its code may be replaced by one     *)
(* with another schema version, and the logs of a spawn may be written     *)
(* anew, copied in, or removed, also while it runs.                        *)
(*                                                                         *)
(* A file stands for the number of the write that made it, its content,    *)
(* and a time stamp.  A shard stands for the content it was built from.    *)
(* Shards are built one after the other; worker processes share nothing,   *)
(* and an error of one lets the others finish before it is raised.         *)
(*                                                                         *)
(* A definition under the heading "Wrong on purpose" is the next one with  *)
(* a plausible bug; nothing uses it.                                       *)
(***************************************************************************)
EXTENDS Naturals, FiniteSets

CONSTANTS
    VariantStems,   \* <variant>-<runner>-<run> of the spawns of one run
    SyncStems,      \* <runner>-clock-sync-<run>
    CacheFaults,    \* subset of {"crash", "wipe", "gap", "older"}: the tool dies; it
                    \* dies inside rmtree; a source is written between the two looks
                    \* of _build_shard at it; a source is replaced by a file with
                    \* an older time stamp
    MaxWrites,      \* bound: writes to source files
    MaxCalls,       \* bound: calls of the tool
    MaxVersions     \* bound: schema versions

ASSUME CacheAssumption ==
    /\ VariantStems \intersect SyncStems = {}
    /\ CacheFaults \subseteq {"crash", "wipe", "gap", "older"}
    /\ MaxWrites \in Nat /\ {MaxCalls, MaxVersions} \subseteq Nat \ {0}

VARIABLES
    written,    \* number of writes to source files so far
    calls,      \* calls of the tool so far
    version,    \* SCHEMA_VERSION of the tool
    source,     \* source[s][f]: the source file of stem s in format f
    shard,      \* shard[s]: <stem>.parquet
    sidecar,    \* sidecar[s]: <stem>.meta.json
    sentinel,   \* _cache_schema_version.json: its version and its index
    step,       \* what the tool is doing
    metas,      \* metas of update_cache: for the stems that are done
    stale,      \* stale_jobs, without those that are done
    building,   \* the stem whose shard is being built, and how far it is
    found       \* found[s]: what the tool found when it listed the sources

cacheVars == <<written, calls, version, source, shard, sidecar, sentinel, step,
               metas, stale, building, found>>

Stems == VariantStems \union SyncStems
Formats == {"jsonl", "compact"}
Writes == 0..MaxWrites      \* 0: there is no such file
Versions == 0..MaxVersions

NoSource == [content |-> 0, stamp |-> 0]
NoShard == [content |-> 0, version |-> 0, whole |-> FALSE]
NoMeta == [stamp |-> 0, version |-> 0]
NoSentinel == [version |-> 0, index |-> [s \in Stems |-> NoMeta]]
NotBuilding == [stem |-> "", read |-> 0]
NotFound == [content |-> 0, format |-> ""]

Sources == [content : Writes, stamp : Writes]
Metas == [stamp : Writes, version : Versions]

(* What the variables range over.                                          *)
CacheTypeOK ==
    /\ written \in Writes /\ calls \in 0..MaxCalls /\ version \in Versions \ {0}
    /\ source \in [Stems -> [Formats -> Sources]]
    /\ shard \in [Stems -> [content : Writes, version : Versions, whole : BOOLEAN]]
    /\ sidecar \in [Stems -> Metas]
    /\ sentinel \in [version : Versions, index : [Stems -> Metas]]
    /\ step \in {"off", "list", "build", "tidy", "read"}
    /\ metas \in [Stems -> Metas]
    /\ stale \subseteq Stems
    /\ building \in [stem : Stems \union {""}, read : Writes]
    /\ found \in [Stems -> [content : Writes, format : Formats \union {""}]]

CacheInit ==
    /\ written = 0 /\ calls = 0 /\ version = 1
    /\ source = [s \in Stems |-> [f \in Formats |-> NoSource]]
    /\ shard = [s \in Stems |-> NoShard]
    /\ sidecar = [s \in Stems |-> NoMeta]
    /\ sentinel = NoSentinel
    /\ step = "off"
    /\ metas = [s \in Stems |-> NoMeta]
    /\ stale = {}
    /\ building = NotBuilding
    /\ found = [s \in Stems |-> NotFound]

\* discover_sources: the compact file wins.
Format(s) == IF source[s]["compact"] # NoSource THEN "compact" ELSE "jsonl"
Source(s) == source[s][Format(s)]
Found == {s \in Stems : Source(s) # NoSource}

-----------------------------------------------------------------------------
(* Outside the tool.                                                       *)

\* A child, a runner, or an operator who copies logs from another machine.
NewStamps(s) ==
    {t \in 1..written + 1 : "older" \in CacheFaults \/ t = written + 1}

WriteSource(s, f) ==
    /\ written < MaxWrites
    /\ s \in SyncStems => f = "jsonl"
    /\ building.stem = s /\ building.read # 0 /\ found[s].format = f => "gap" \in CacheFaults
    /\ written' = written + 1
    /\ \E t \in NewStamps(s) :
          source' = [source EXCEPT ![s][f] = [content |-> written + 1, stamp |-> t]]
    /\ UNCHANGED <<calls, version, shard, sidecar, sentinel, step, metas, stale,
                   building, found>>

\* The clean-up of a resumed run removes a JSONL log, an operator a whole spawn.
RemoveSource(s) ==
    /\ Source(s) # NoSource
    /\ \E kept \in {NoSource, source[s]["compact"]} :
          source' = [source EXCEPT ![s] = [f \in Formats |->
                        IF f = "compact" THEN kept ELSE NoSource]]
    /\ UNCHANGED <<written, calls, version, shard, sidecar, sentinel, step, metas,
                   stale, building, found>>

NewVersion ==
    /\ step = "off" /\ version < MaxVersions
    /\ version' = version + 1
    /\ UNCHANGED <<written, calls, source, shard, sidecar, sentinel, step, metas,
                   stale, building, found>>

-----------------------------------------------------------------------------
(* update_cache.                                                           *)

Empty == /\ shard' = [s \in Stems |-> NoShard]
         /\ sidecar' = [s \in Stems |-> NoMeta]
         /\ sentinel' = NoSentinel

\* --clear, or a sentinel of another version: rmtree.  A missing sentinel is
\* not a reason.
OtherVersion == sentinel # NoSentinel /\ sentinel.version # version

Call(clear) ==
    /\ step = "off" /\ calls < MaxCalls
    /\ calls' = calls + 1
    /\ step' = "list"
    /\ IF clear \/ OtherVersion
       THEN Empty
       ELSE UNCHANGED <<shard, sidecar, sentinel>>
    /\ UNCHANGED <<written, version, source, metas, stale, building, found>>

\* It dies at the end of rmtree, or in the middle, with some of the files gone.
DieWiping(clear) ==
    /\ "crash" \in CacheFaults
    /\ step = "off" /\ calls < MaxCalls
    /\ clear \/ OtherVersion
    /\ calls' = calls + 1
    /\ \E gone, stripped \in SUBSET Stems, headless \in BOOLEAN :
          /\ "wipe" \notin CacheFaults => gone = Stems /\ stripped = Stems /\ headless
          /\ shard' = [s \in Stems |-> IF s \in gone THEN NoShard ELSE shard[s]]
          /\ sidecar' = [s \in Stems |-> IF s \in stripped THEN NoMeta ELSE sidecar[s]]
          /\ sentinel' = IF headless THEN NoSentinel ELSE sentinel
    /\ UNCHANGED <<written, version, source, step, metas, stale, building, found>>

\* The index first, its entries of another version dropped; then the sidecar.
KnownMeta(s) ==
    IF sentinel.index[s] # NoMeta /\ sentinel.index[s].version = version
    THEN sentinel.index[s] ELSE sidecar[s]

\* Wrong on purpose: a sidecar of another version will do.
AnyVersionIsStale(s) ==
    \/ KnownMeta(s) = NoMeta
    \/ shard[s] = NoShard
    \/ KnownMeta(s).stamp < Source(s).stamp

\* _is_stale.
IsStale(s) ==
    \/ KnownMeta(s) = NoMeta
    \/ KnownMeta(s).version # version
    \/ shard[s] = NoShard
    \/ KnownMeta(s).stamp < Source(s).stamp

ListSources ==
    /\ step = "list"
    /\ step' = "build"
    /\ found' = [s \in Stems |-> IF s \in Found
                                THEN [content |-> Source(s).content, format |-> Format(s)]
                                ELSE NotFound]
    /\ stale' = {s \in Found : IsStale(s)}
    /\ metas' = [s \in Stems |-> IF s \in Found /\ ~IsStale(s) THEN KnownMeta(s) ELSE NoMeta]
    /\ UNCHANGED <<written, calls, version, source, shard, sidecar, sentinel, building>>

\* The path of the job, whatever has come up since.
JobSource(s) == source[s][found[s].format]

\* _build_shard writes the shard in place.
OpenShard(s) ==
    /\ step = "build" /\ building = NotBuilding
    /\ s \in stale /\ JobSource(s) # NoSource
    /\ building' = [stem |-> s, read |-> 0]
    /\ shard' = [shard EXCEPT ![s] = [content |-> 0, version |-> version, whole |-> FALSE]]
    /\ UNCHANGED <<written, calls, version, source, sidecar, sentinel, step, metas,
                   stale, found>>

FillShard ==
    LET s == building.stem
    IN  /\ building # NotBuilding /\ building.read = 0
        /\ JobSource(s) # NoSource
        /\ building' = [building EXCEPT !.read = JobSource(s).content]
        /\ shard' = [shard EXCEPT ![s] = [content |-> JobSource(s).content,
                                          version |-> version, whole |-> TRUE]]
        /\ UNCHANGED <<written, calls, version, source, sidecar, sentinel, step, metas,
                       stale, found>>

\* Only then it looks at the time stamp, and writes the sidecar, through a
\* temporary file.
StampShard ==
    LET s == building.stem
        meta == [stamp |-> JobSource(s).stamp, version |-> version]
    IN  /\ building # NotBuilding /\ building.read # 0
        /\ JobSource(s) # NoSource
        /\ sidecar' = [sidecar EXCEPT ![s] = meta]
        /\ metas' = [metas EXCEPT ![s] = meta]
        /\ stale' = stale \ {s}
        /\ building' = NotBuilding
        /\ UNCHANGED <<written, calls, version, source, shard, sentinel, step, found>>

Off == /\ step' = "off"
       /\ building' = NotBuilding
       /\ stale' = {}
       /\ metas' = [s \in Stems |-> NoMeta]
       /\ found' = [s \in Stems |-> NotFound]

\* A source that is gone or cannot be read: the exception ends the tool.
BuildFails ==
    /\ step = "build"
    /\ IF building = NotBuilding
       THEN stale # {}
       ELSE JobSource(building.stem) = NoSource \/ building.read = 0
    /\ Off
    /\ UNCHANGED <<written, calls, version, source, shard, sidecar, sentinel>>

BuildsDone ==
    /\ step = "build" /\ stale = {} /\ building = NotBuilding
    /\ step' = "tidy"
    /\ UNCHANGED <<written, calls, version, source, shard, sidecar, sentinel, metas,
                   stale, building, found>>

\* _remove_orphan_shards, _backfill_index_fields, _write_global_sentinel.
Listed == {s \in Stems : metas[s] # NoMeta}

Tidy ==
    /\ step = "tidy"
    /\ step' = "read"
    /\ shard' = [s \in Stems |-> IF s \in Listed THEN shard[s] ELSE NoShard]
    /\ sidecar' = [s \in Stems |-> IF s \in Listed THEN sidecar[s] ELSE NoMeta]
    /\ sentinel' = [version |-> version, index |-> metas]
    /\ UNCHANGED <<written, calls, version, source, metas, stale, building, found>>

\* It dies among the files it deletes, before the sentinel is replaced.
DieTidying ==
    /\ "crash" \in CacheFaults /\ step = "tidy"
    /\ \E gone, stripped \in SUBSET (Stems \ Listed) :
          /\ shard' = [s \in Stems |-> IF s \in gone THEN NoShard ELSE shard[s]]
          /\ sidecar' = [s \in Stems |-> IF s \in stripped THEN NoMeta ELSE sidecar[s]]
    /\ Off
    /\ UNCHANGED <<written, calls, version, source, sentinel>>

Die ==
    /\ "crash" \in CacheFaults /\ step \in {"list", "build"}
    /\ Off
    /\ UNCHANGED <<written, calls, version, source, shard, sidecar, sentinel>>

\* run_analysis, over the groups of discover_groups.
Analyse ==
    /\ step = "read"
    /\ Off
    /\ UNCHANGED <<written, calls, version, source, shard, sidecar, sentinel>>

CacheNext ==
    \/ \E s \in Stems : RemoveSource(s) \/ OpenShard(s) \/ \E f \in Formats : WriteSource(s, f)
    \/ NewVersion
    \/ \E clear \in BOOLEAN : Call(clear) \/ DieWiping(clear)
    \/ ListSources \/ FillShard \/ StampShard \/ BuildFails \/ BuildsDone
    \/ Tidy \/ DieTidying \/ Die \/ Analyse

CacheSpec == CacheInit /\ [][CacheNext]_cacheVars

\* discover_groups: a group for each spawn that is listed (the spawns of this
\* run differ in their variant), with the clock-sync shards of the run.
Groups == {{s} \union (Listed \intersect SyncStems) : s \in Listed \intersect VariantStems}

-----------------------------------------------------------------------------
(* Properties.                                                             *)

(* Safety: what is analysed is what is there.  When the tool reads the shards,
   every spawn whose logs were there when it listed them is in one group, with
   the clock-sync logs of its run; every shard of the groups is whole, has the
   layout this version of the tool reads, and is built from the file the listing
   found or from a later one; and nothing is left of a spawn that had no logs.
   Crashes, errors, other versions and writes while it runs do not matter.  It
   does not hold with "gap", "older" or "wipe" (a sidecar that outlives its shard
   vouches for the next one, also if the build of that one fails). *)
AnalysedIsCurrent ==
    LET wasThere == {s \in Stems : found[s] # NotFound}
    IN  step = "read" =>
        /\ \A s \in Stems :
              IF s \in wasThere
              THEN shard[s].whole /\ shard[s].version = version /\ shard[s].content >= found[s].content
              ELSE shard[s] = NoShard
        /\ \A s \in VariantStems \intersect wasThere :
              \E g \in Groups : {s} \union (SyncStems \intersect wasThere) \subseteq g
=============================================================================
