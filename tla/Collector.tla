----------------------------- MODULE Collector ------------------------------
(***************************************************************************)
(* The collection of results on the host: collect_from_sdcard.sh and       *)
(* collect_latencies.sh copy what a card holds to the output directory and *)
(* from there to results/, collect_perf_metrics.sh makes a table of the    *)
(* text files and collect_per_inference_perf.sh one of the CSVs.  The user *)
(* runs them in any order, on one card or another; a command may fail at   *)
(* any point, which ends a script with set -e.                             *)
(*                                                                         *)
(* A text file is the sequence of its campaigns, each with the counters    *)
(* that perf printed a number for; a CSV is known by the campaign that     *)
(* wrote it.  The _riscv variants differ in directory names alone.         *)
(***************************************************************************)
EXTENDS Integers, Sequences, SequencesExt, FiniteSets

CONSTANTS
  Cards,     \* what the cards hold: [booted, txt, csv]
  Published, \* what results/ holds at first, as Dir: it is in the repository
  NRuns,     \* the rows of a whole CSV
  MaxFaults, MaxScripts   \* bounds on failing commands and on scripts run

\* A card and what is published are directories of files by name.
ASSUME CardsAssumption ==
  \A c \in Cards :
    /\ c.booted \in BOOLEAN
    /\ c.txt = [l \in DOMAIN c.txt |-> c.txt[l]]
    /\ c.csv = [f \in DOMAIN c.csv |-> c.csv[f]]

VARIABLES
  pc,       \* the next step of collect_from_sdcard.sh, "idle" if none runs
  card,     \* the card that was last inserted
  out, lat,        \* output_dir/cmlles_results and output_dir/latencies
  res, resLat,     \* their copies in results/
  perfTable,       \* perf_metrics_all.csv: the rows, as a set
  summary,         \* per_inference_perf_summary.csv
  ended,    \* how the last collection ended: "none", "done", "failed"
  masked,   \* in it, a CSV was not copied and the error was discarded
  faults, scripts  \* how many there were

card_vars == <<card, masked>>
output == <<out, lat>>
results == <<res, resLat>>
tables == <<perfTable, summary>>
bounds == <<faults, scripts>>
vars == <<pc, card_vars, output, results, tables, ended, bounds>>

\* A directory that may not be there, with its files.
Dir(files) == [there |-> TRUE, files |-> files]
NoDir == [there |-> FALSE, files |-> <<>>]

Only(f, S) == [x \in DOMAIN f \intersect S |-> f[x]]

\* cp of the files f into a directory with the files g.
Over(f, g) ==
  [x \in DOMAIN f \union DOMAIN g |-> IF x \in DOMAIN f THEN f[x] ELSE g[x]]

Init ==
  /\ pc = "idle"
  /\ card \in Cards
  /\ out = NoDir /\ lat = NoDir
  /\ res = Published.res /\ resLat = Published.lat
  /\ perfTable = {} /\ summary = {}
  /\ ended = "none" /\ masked = FALSE
  /\ faults = 0 /\ scripts = 0

\* A command of the script fails.
MayFault == faults < MaxFaults
Fault == MayFault /\ faults' = faults + 1

\* set -e.
Abort ==
  /\ Fault
  /\ pc' = "idle" /\ ended' = "failed"
  /\ UNCHANGED scripts

Goes(to) == pc' = to /\ UNCHANGED <<ended, bounds>>

\* The card is inserted, its partition is there and mounts.
Collect ==
  /\ pc = "idle" /\ scripts < MaxScripts
  /\ card' \in Cards
  /\ pc' = "results" /\ ended' = "none" /\ masked' = FALSE
  /\ scripts' = scripts + 1
  /\ UNCHANGED <<output, results, tables, faults>>

\* No such partition, or it does not mount.
MountFails ==
  /\ pc = "results" /\ Abort
  /\ UNCHANGED <<card_vars, output, results, tables>>

\* (mutant) the results of before are not removed: the files are merged.
RemoveNothing ==
  /\ pc = "results" /\ card.booted
  /\ out' = Dir(out.files)
  /\ Goes("copy")
  /\ UNCHANGED <<card_vars, lat, results, tables>>

\* (mutant) the published results are removed here already.
RemoveEarly ==
  /\ pc = "results" /\ card.booted
  /\ out' = NoDir /\ res' = NoDir
  /\ Goes("copy")
  /\ UNCHANGED <<card_vars, lat, resLat, tables>>

RemoveOld ==
  /\ pc = "results" /\ card.booted
  /\ out' = NoDir
  /\ Goes("copy")
  /\ UNCHANGED <<card_vars, lat, results, tables>>

\* The board was never started with this card: a warning, and what was
\* collected before stays.
NoResults ==
  /\ pc = "results" /\ ~card.booted
  /\ Goes("latencies")
  /\ UNCHANGED <<card_vars, output, results, tables>>

CopyResults ==
  /\ pc = "copy"
  /\ out' = Dir(Over(card.txt, out.files))
  /\ Goes("latencies")
  /\ UNCHANGED <<card_vars, lat, results, tables>>

\* cp stops at some file.
CopyResultsFails ==
  /\ pc = "copy" /\ Abort
  /\ \E S \in SUBSET DOMAIN card.txt : out' = Dir(Over(Only(card.txt, S), out.files))
  /\ UNCHANGED <<card_vars, lat, results, tables>>

\* (mutant) cp -n: a CSV already there is kept.
LatenciesKept(S) == lat' = Dir(Over(lat.files, Only(card.csv, S)))

\* The CSVs of the card over those that are there: the directory is not
\* emptied.  An error of cp is discarded ("|| true").
LatenciesOver(S) == lat' = Dir(Over(Only(card.csv, S), lat.files))

CopyLatencies ==
  /\ pc = "latencies"
  /\ \/ LatenciesOver(DOMAIN card.csv) /\ UNCHANGED <<masked, faults>>
     \/ /\ Fault /\ masked' = TRUE
        /\ \E S \in SUBSET DOMAIN card.csv : LatenciesOver(S)
  /\ pc' = "umount"
  /\ UNCHANGED <<card, out, results, tables, ended, scripts>>

Unmount ==
  /\ pc = "umount"
  /\ Goes("remove")
  /\ UNCHANGED <<card_vars, output, results, tables>>

UnmountFails ==
  /\ pc = "umount" /\ Abort
  /\ UNCHANGED <<card_vars, output, results, tables>>

RemovePublished ==
  /\ pc = "remove"
  /\ res' = NoDir /\ resLat' = NoDir
  /\ Goes("publish")
  /\ UNCHANGED <<card_vars, output, tables>>

PublishResults ==
  /\ pc = "publish" /\ out.there
  /\ res' = out
  /\ Goes("publish latencies")
  /\ UNCHANGED <<card_vars, output, resLat, tables>>

\* Nothing was ever collected: cp has no source.
NothingToPublish ==
  /\ pc = "publish" /\ ~out.there
  /\ pc' = "idle" /\ ended' = "failed"
  /\ UNCHANGED <<card_vars, output, results, tables, bounds>>

PublishFails ==
  /\ pc = "publish" /\ out.there /\ Abort
  /\ \E S \in SUBSET DOMAIN out.files : res' = Dir(Only(out.files, S))
  /\ UNCHANGED <<card_vars, output, resLat, tables>>

PublishLatencies ==
  /\ pc = "publish latencies"
  /\ resLat' = lat
  /\ pc' = "idle" /\ ended' = "done"
  /\ UNCHANGED <<card_vars, output, res, tables, bounds>>

PublishLatenciesFails ==
  /\ pc = "publish latencies" /\ Abort
  /\ \E S \in SUBSET DOMAIN lat.files : resLat' = Dir(Only(lat.files, S))
  /\ UNCHANGED <<card_vars, output, res, tables>>

\* collect_latencies.sh, whole: it publishes nothing.
LatenciesOnly ==
  /\ pc = "idle" /\ scripts < MaxScripts
  /\ card' \in Cards
  /\ lat' = Dir(Over(card'.csv, lat.files))
  /\ ended' = "none" /\ masked' = FALSE
  /\ scripts' = scripts + 1
  /\ UNCHANGED <<pc, out, results, tables, faults>>

(***************************************************************************)
(* The tables.  re.search finds the first match in the text, of each       *)
(* counter for itself.                                                     *)
(***************************************************************************)
\* The campaign the value of a counter comes from, 0 when there is no value.
Value(text, counter) ==
  LET S == SelectSeq(text, LAMBDA c : counter \in c.counters)
  IN  IF S = <<>> THEN 0 ELSE Head(S).campaign

PerfRow(l) ==
  [label |-> l, cycles |-> Value(out.files[l], "cycles"),
   l1_loads |-> Value(out.files[l], "l1_loads")]

PerfRows == {r \in {PerfRow(l) : l \in DOMAIN out.files} : r.cycles # 0}

PerfMetrics ==
  /\ pc = "idle" /\ out.there /\ scripts < MaxScripts
  /\ perfTable' = PerfRows
  /\ scripts' = scripts + 1
  /\ UNCHANGED <<pc, card_vars, output, results, summary, ended, faults>>

\* The row of run 1 is left out.  A CSV with one other or none gives no row (one
\* number has no deviation), and one that was cut short gives one only if the
\* cut spared its last numbers.
SummaryRow(f) ==
  [label |-> f, campaign |-> lat.files[f].campaign,
   n_runs |-> lat.files[f].rows - 1]

PerInference ==
  /\ pc = "idle" /\ lat.there /\ scripts < MaxScripts
  /\ \E read \in SUBSET DOMAIN lat.files :
       /\ {f \in DOMAIN lat.files : lat.files[f].rows = NRuns} \subseteq read
       /\ summary' = {r \in {SummaryRow(f) : f \in read} : r.n_runs > 1}
  /\ scripts' = scripts + 1
  /\ UNCHANGED <<pc, card_vars, output, results, perfTable, ended, faults>>

Stopped == pc = "idle" /\ scripts = MaxScripts /\ UNCHANGED vars

Next ==
  \/ Collect \/ MountFails \/ RemoveOld \/ NoResults
  \/ CopyResults \/ CopyResultsFails \/ CopyLatencies
  \/ Unmount \/ UnmountFails \/ RemovePublished
  \/ PublishResults \/ NothingToPublish \/ PublishFails
  \/ PublishLatencies \/ PublishLatenciesFails
  \/ LatenciesOnly \/ PerfMetrics \/ PerInference
  \/ Stopped

Spec == Init /\ [][Next]_vars

-----------------------------------------------------------------------------
(* Properties.                                                             *)

\* A collection that ends well has published the text files of its card and
\* no others, whatever earlier collections left half done.
ResultsOfCard == ended = "done" /\ card.booted => res = Dir(card.txt)

\* It has published every CSV of its card, as it is on the card, unless a
\* copy failed unnoticed.
LatenciesCover ==
  ended = "done" /\ ~masked =>
    \A f \in DOMAIN card.csv :
      f \in DOMAIN resLat.files /\ resLat.files[f] = card.csv[f]

\* The results published before are removed only when those of the card, if
\* it has any, have been copied whole.
PublishedKept ==
  [][res.there /\ ~res'.there => (card.booted => out = Dir(card.txt))]_vars

\* It has published the CSVs of its card and no others.
LatenciesOfCard == ended = "done" /\ ~masked => resLat = Dir(card.csv)
=============================================================================
