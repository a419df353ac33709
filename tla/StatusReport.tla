----------------------------- MODULE StatusReport -----------------------------
(***************************************************************************)
(* What a page of the fleet dashboard (tools/status-board) says about      *)
(* backups, kernels and disks: the state of a machine's backup             *)
(* repositories, the sizes a background walk of them found, the kernel     *)
(* releases fetched from kernel.org, and the forecast of a full disk.      *)
(*                                                                         *)
(* Sizes and releases are kept in memory and then in a file, which is      *)
(* written in place (Torn until that is done) and read at the next start.  *)
(* A write fails before the file is opened or after it, and its error is   *)
(* dropped or logged; a file that cannot be read is taken for none.  The   *)
(* three parts share no state; each has its own next-state relation.       *)
(***************************************************************************)
EXTENDS Integers, Sequences, FiniteSets, FiniteSetsExt, SequencesExt, Functions, TLC

CONSTANTS
    Repos,           \* backup repositories
    Paths,           \* explicitPathTargets of a machine: per path its repositories
    Ages,            \* ages of snapshots, in hours
    NoFile, Torn,    \* contents of a file that is missing or cut off
    Sizes,           \* sizes of repositories
    Branches,        \* kernel branches
    Patches,         \* patch levels
    Used, DiskSize,  \* fill levels of a disk, and its size
    Gaps, Cutoff     \* hours between samples, and how long one counts (168)

ASSUME ReportAssumption ==
    /\ Paths \in Seq(Seq(Repos)) /\ Ages \subseteq Nat
    /\ Sizes \subseteq Nat /\ Patches \subseteq Nat /\ Used \subseteq Nat /\ DiskSize \in Nat \ {0}
    /\ Gaps \subseteq Nat \ {0} /\ Cutoff \in Nat

VARIABLES
    repos,                  \* the repositories on disk
    repoSizes, sizesFile,   \* sizes in memory and in reposizes.json
    walk,                   \* the sizer: what it has yet to walk and has found
    lastWalk, filed,        \* history: what the last walk this process
                            \* completed found, and the last one filed
    kernelReleases, kernelFile, fetch,   \* the same for releases
    fetched, unread,        \* history: the list they are of; did the last
                            \* start fail to read the file?
    samples                 \* a machine's samples: age and fill level, oldest first

backupVars == <<repos, repoSizes, sizesFile, walk, lastWalk, filed>>
kernelVars == <<kernelReleases, kernelFile, fetch, fetched, unread>>

NoEntries == [x \in {} |-> 0]

-----------------------------------------------------------------------------
(* Backups.  A repository: is it there, can its snapshots be listed, and    *)
(* how old are they?                                                        *)
RepoState == [there : BOOLEAN, listed : BOOLEAN, snaps : SUBSET Ages]

NoSnapshots(exists) ==
    [Exists |-> exists, Snapshots |-> 0, AgeHours |-> 0, OldestHours |-> 0,
     Last24h |-> 0, Last7d |-> 0, Last30d |-> 0, Older |-> 0]

ScanTargetRepo(r) ==
    LET s == repos[r].snaps
        Between(lo, hi) == Cardinality({a \in s : lo <= a /\ a < hi})
    IN  IF ~repos[r].there THEN NoSnapshots("no")
        ELSE IF ~repos[r].listed THEN NoSnapshots("no-snaps")
        ELSE [Exists |-> "yes", Snapshots |-> Cardinality(s),
              AgeHours |-> IF s = {} THEN 0 ELSE Min(s),
              OldestHours |-> IF s = {} THEN 0 ELSE Max(s),
              Last24h |-> Between(0, 24), Last7d |-> Between(24, 168),
              Last30d |-> Between(168, 720), Older |-> Cardinality({a \in s : a >= 720})]

Smaller(a, b) == IF a < b THEN a ELSE b
Larger(a, b) == IF a > b THEN a ELSE b

(* One target of the roll-up: a repository that was counted is skipped. *)
AddTarget(sum, r) ==
    LET t == ScanTargetRepo(r) IN
    IF r \in sum.seen THEN sum
    ELSE IF t.Exists # "yes" THEN [sum EXCEPT !.seen = @ \cup {r}]
    ELSE [seen |-> sum.seen \cup {r},
          bytes |-> sum.bytes + (IF r \in DOMAIN repoSizes THEN repoSizes[r] ELSE 0),
          restic |-> [f \in DOMAIN t |->
              CASE f = "Exists" -> "yes"
                [] f \in {"AgeHours", "OldestHours"} -> Larger(t[f], sum.restic[f])
                [] OTHER -> sum.restic[f] + t[f]]]

RollupRestic ==
    FoldLeft(AddTarget, [seen |-> {}, bytes |-> 0, restic |-> NoSnapshots("no")],
             FlattenSeq(Paths))

ResticBucket(t) ==
    IF t.Exists = "no" THEN "bad"
    ELSE IF t.Snapshots = 0 THEN "warn"
    ELSE IF t.AgeHours > 48 THEN "bad" ELSE IF t.AgeHours > 26 THEN "warn" ELSE "ok"

Resting == [pc |-> "rest", todo |-> {}, fresh |-> NoEntries]

BackupsInit ==
    /\ repos \in [Repos -> {s \in RepoState : s.snaps # {} => s.there /\ s.listed}]
    /\ repoSizes = NoEntries /\ sizesFile = NoFile
    /\ walk = Resting /\ lastWalk = NoEntries /\ filed = NoEntries

(* The sizer begins a round, walks the repositories one by one in any       *)
(* order, and leaves out one it cannot read.                                *)
BeginWalk ==
    /\ walk.pc = "rest"
    /\ walk' = [pc |-> "walk", todo |-> Repos, fresh |-> NoEntries]
    /\ UNCHANGED <<repos, repoSizes, sizesFile, lastWalk, filed>>

Walk(r) ==
    /\ r \in walk.todo
    /\ \/ /\ repos[r].there
          /\ \E size \in Sizes :
               walk' = [walk EXCEPT !.todo = @ \ {r}, !.fresh = (r :> size) @@ @]
       \/ walk' = [walk EXCEPT !.todo = @ \ {r}]
    /\ UNCHANGED <<repos, repoSizes, sizesFile, lastWalk, filed>>

(* What was found replaces the map, unless nothing was. *)
PublishSizes ==
    /\ walk.pc = "walk" /\ walk.todo = {}
    /\ IF walk.fresh = NoEntries
       THEN walk' = Resting /\ UNCHANGED <<repoSizes, lastWalk>>
       ELSE /\ repoSizes' = walk.fresh /\ lastWalk' = walk.fresh
            /\ walk' = [walk EXCEPT !.pc = "save"]
    /\ UNCHANGED <<repos, sizesFile, filed>>

(* Then the file is opened, and so emptied, and written, *)
OpenSizes ==
    /\ walk.pc = "save"
    /\ sizesFile' = Torn
    /\ UNCHANGED <<repos, repoSizes, walk, lastWalk, filed>>

SizesWritten ==
    /\ walk.pc = "save" /\ sizesFile = Torn
    /\ sizesFile' = walk.fresh /\ filed' = walk.fresh /\ walk' = Resting
    /\ UNCHANGED <<repos, repoSizes, lastWalk>>

(* or the one or the other fails. *)
SaveFails ==
    /\ walk.pc = "save"
    /\ walk' = Resting
    /\ UNCHANGED <<repos, repoSizes, sizesFile, lastWalk, filed>>

(* The process ends and is started again: startRepoSizer reads the file.    *)
RestartSizer ==
    /\ repoSizes' \in {NoEntries} \cup ({sizesFile} \ {NoFile, Torn})
    /\ walk' = Resting /\ lastWalk' = NoEntries
    /\ UNCHANGED <<repos, sizesFile, filed>>

BackupsNext ==
    \/ BeginWalk \/ PublishSizes \/ OpenSizes \/ SizesWritten \/ SaveFails \/ RestartSizer
    \/ \E r \in Repos : Walk(r)

BackupsSpec == BackupsInit /\ [][BackupsNext]_backupVars

-----------------------------------------------------------------------------
(* Kernels.  kernel.org lists releases newest first.                        *)
Release == [branch : Branches, patch : Patches, eol : BOOLEAN]
Listings ==
    {<<>>} \cup {<<r>> : r \in Release} \cup {<<r, q>> : r, q \in Release}
NewestFirst(list) ==
    \A i, j \in DOMAIN list : i < j /\ list[i].branch = list[j].branch =>
        list[i].patch > list[j].patch

ParseLast(list) ==
    [b \in {list[i].branch : i \in DOMAIN list} |->
        list[Max({i \in DOMAIN list : list[i].branch = b})]]

(* parseKernelorg: the first release of each branch. *)
Parse(list) ==
    [b \in {list[i].branch : i \in DOMAIN list} |->
        list[Min({i \in DOMAIN list : list[i].branch = b})]]

KernelInit ==
    /\ kernelReleases = NoEntries /\ kernelFile = NoFile
    /\ fetch = <<>> /\ fetched = <<>> /\ unread = FALSE

FetchUnchecked(list) ==
    /\ fetch = <<>>
    /\ kernelReleases' = Parse(list) /\ fetched' = list
    /\ fetch' = list /\ unread' = FALSE
    /\ UNCHANGED kernelFile

(* fetchKernelorg: an answer without releases is refused and changes        *)
(* nothing, as a failed request does not.                                   *)
Fetch(list) ==
    /\ fetch = <<>> /\ list # <<>>
    /\ kernelReleases' = Parse(list) /\ fetched' = list
    /\ fetch' = list /\ unread' = FALSE
    /\ UNCHANGED kernelFile

(* Then the file is opened, and so emptied, and written, *)
OpenReleases ==
    /\ fetch # <<>>
    /\ kernelFile' = Torn
    /\ UNCHANGED <<kernelReleases, fetch, fetched, unread>>

ReleasesWritten ==
    /\ fetch # <<>> /\ kernelFile = Torn
    /\ kernelFile' = fetch /\ fetch' = <<>>
    /\ UNCHANGED <<kernelReleases, fetched, unread>>

(* or the one or the other fails. *)
WriteFails ==
    /\ fetch # <<>>
    /\ fetch' = <<>>
    /\ UNCHANGED <<kernelReleases, kernelFile, fetched, unread>>

(* startKernelFetcher reads the file at the next start. *)
RestartFetcher ==
    /\ fetch' = <<>>
    /\ unread' \in BOOLEAN
    /\ IF kernelFile \in {NoFile, Torn} \/ unread'
       THEN kernelReleases' = NoEntries /\ fetched' = <<>>
       ELSE kernelReleases' = Parse(kernelFile) /\ fetched' = kernelFile
    /\ UNCHANGED kernelFile

KernelNext ==
    \/ \E list \in {l \in Listings : NewestFirst(l)} : Fetch(list)
    \/ OpenReleases \/ ReleasesWritten \/ WriteFails \/ RestartFetcher

KernelSpec == KernelInit /\ [][KernelNext]_kernelVars

(* freshnessFor: how far a booted kernel is behind its branch.              *)
Level(branch, patch) ==
    IF branch \notin DOMAIN kernelReleases THEN "bad"
    ELSE LET rel == kernelReleases[branch]
             behind == Larger(rel.patch - patch, 0)
         IN  IF rel.eol \/ behind > 10 THEN "bad" ELSE IF behind > 3 THEN "warn" ELSE "ok"

-----------------------------------------------------------------------------
(* Disks.  forecastDaysToFull, in hours, over the samples that count; a     *)
(* fraction is <<numerator, denominator>>.                                  *)
No == <<-1, 1>>
Sum(f) == FoldFunction(+, 0, f)

(* The fitted line: slope a/d, and the time at which it reaches the disk's  *)
(* size, counted from the first sample.                                     *)
Fit ==
    LET n == Len(samples)
        x == [i \in 1..n |-> samples[1].age - samples[i].age]
        y == [i \in 1..n |-> samples[i].used]
        sx == Sum(x)
        sy == Sum(y)
        sxy == Sum([i \in 1..n |-> x[i] * y[i]])
        sxx == Sum([i \in 1..n |-> x[i] * x[i]])
    IN  [n |-> n, sx |-> sx, sy |-> sy, a |-> n * sxy - sx * sy, d |-> n * sxx - sx * sx]

Enough == Len(samples) >= 4 /\ samples[1].age - Last(samples).age >= 6

Forecast ==
    LET f == Fit
        full == DiskSize * f.n * f.d - f.sy * f.d + f.a * f.sx
        left == full - samples[1].age * f.n * f.a
    IN  IF ~Enough THEN No
        ELSE IF f.d = 0 \/ f.a <= 0 THEN No
        ELSE IF left <= 0 THEN <<0, 1>> ELSE <<left, f.n * f.a>>

SamplesInit == samples = <<>>

Older(g) == [i \in DOMAIN samples |-> [samples[i] EXCEPT !.age = @ + g]]

(* appendSample, once a round. *)
AppendSample ==
    /\ samples # <<>> => Last(samples).age > 0
    /\ \E u \in Used : samples' = Append(samples, [age |-> 0, used |-> u])

(* Time passes, and readSamples leaves out what is older than a week.       *)
ReadSamples(g) ==
    /\ samples # <<>>
    /\ samples' = SelectSeq(Older(g), LAMBDA s : s.age <= Cutoff)

SamplesNext == AppendSample \/ \E g \in Gaps : ReadSamples(g)

-----------------------------------------------------------------------------
Targets == {FlattenSeq(Paths)[i] : i \in DOMAIN FlattenSeq(Paths)}
Worse == [ok |-> 0, warn |-> 1, bad |-> 2]

(* Type invariant; sizes and releases are those of what was asked for.      *)
ReportTypeOK ==
    /\ DOMAIN repoSizes \subseteq {r \in Repos : repos[r].there}
    /\ walk.todo \subseteq Repos /\ DOMAIN walk.fresh \cap walk.todo = {}
    /\ \A b \in DOMAIN kernelReleases : kernelReleases[b].branch = b
    /\ \A i \in DOMAIN samples : samples[i].age \in 0..Cutoff /\ samples[i].used \in Used

(* "header shows the STALEST target": the badge of a machine with several   *)
(* repositories is never better than that of any of them, except of one     *)
(* that has no snapshot at all or is missing, which the roll-up skips.      *)
BadgeHidesOnlyEmpty ==
    \A r \in Targets :
        Worse[ResticBucket(RollupRestic.restic)] < Worse[ResticBucket(ScanTargetRepo(r))] =>
            ScanTargetRepo(r).Snapshots = 0

(* The counts and the size are of the distinct repositories, however many   *)
(* paths share them, and the four periods add up to the total.              *)
SnapshotsCountedOnce ==
    LET t == RollupRestic.restic
    IN  /\ t.Snapshots = MapThenSumSet(LAMBDA r : ScanTargetRepo(r).Snapshots, Targets)
        /\ t.Snapshots = t.Last24h + t.Last7d + t.Last30d + t.Older
        /\ RollupRestic.bytes =
             MapThenSumSet(LAMBDA r : IF repos[r].listed THEN repoSizes[r] ELSE 0,
                           Targets \cap DOMAIN repoSizes)

(* The sizes shown are all of those of one walk: of the last one this       *)
(* process has completed, even if it could not be filed; before the first,  *)
(* of the last one that was filed, or none if the file was missing, cut off *)
(* or unreadable at the start.  A walk whose write fails, or that the       *)
(* process does not survive between the map and the file, leaves those of   *)
(* the walk before it to the next start.                                    *)
SizesOfLastWalk ==
    IF lastWalk # NoEntries THEN repoSizes = lastWalk ELSE repoSizes \in {NoEntries, filed}

(* A booted kernel is judged by the newest release of its branch in the     *)
(* list fetched last, or read at start.  Without any list, every kernel is  *)
(* shown as out of support.                                                 *)
KernelJudged ==
    \A b \in Branches, p \in Patches :
        LET of == {i \in DOMAIN fetched : fetched[i].branch = b}
            newest == Max({fetched[i].patch : i \in of})
            eol == \E i \in of : fetched[i].patch = newest /\ fetched[i].eol
        IN  Level(b, p) = IF of = {} \/ eol \/ newest - p > 10 THEN "bad"
                          ELSE IF newest - p > 3 THEN "warn" ELSE "ok"

(* Once known, releases are not forgotten, whatever kernel.org answers,     *)
(* unless the process is started again with a file that is missing, cut     *)
(* off or cannot be read.                                                   *)
ReleasesKept ==
    [][kernelReleases # NoEntries /\ kernelReleases' = NoEntries =>
         kernelFile \in {NoFile, Torn} \/ unread']_kernelVars

(* When the forecast is a number of hours, the line through the samples     *)
(* that leaves the least squares (the residuals and their moments vanish)   *)
(* reaches the size of the disk exactly then.                               *)
ForecastOnLine ==
    LET f == Fit
        h == Forecast
        n == f.n
        x(i) == samples[1].age - samples[i].age
        res(i) == samples[i].used * n * f.d - f.sy * f.d - f.a * (n * x(i) - f.sx)
    IN  h[1] > 0 =>
        /\ Sum([i \in 1..n |-> res(i)]) = 0
        /\ Sum([i \in 1..n |-> x(i) * res(i)]) = 0
        /\ DiskSize * n * f.d * h[2] =
             f.sy * f.d * h[2] + f.a * (n * (h[1] + samples[1].age * h[2]) - f.sx * h[2])

-----------------------------------------------------------------------------
(* The page tells what was found last of backups, and of disks that fill.   *)
ReportTrue ==
    /\ ReportTypeOK
    /\ BadgeHidesOnlyEmpty
    /\ SnapshotsCountedOnce
    /\ ForecastOnLine

(* It shows the sizes and judges the kernels by what was fetched last.      *)
FetchedTrue == SizesOfLastWalk /\ KernelJudged
=============================================================================
