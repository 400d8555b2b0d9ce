-------------------------- MODULE Collector_proofs ---------------------------
(***************************************************************************)
(* What a collection publishes, for any cards, any results published       *)
(* before, and any number of scripts and of failing commands.              *)
(***************************************************************************)
EXTENDS Collector, TLAPS

-----------------------------------------------------------------------------
(* The inductive invariant: what the step that comes next relies on.       *)

\* From the copy of the text files to the end of a collection.
AfterCopy == {"latencies", "umount", "remove", "publish", "publish latencies"}

\* From the copy of the CSVs to the end of a collection.
AfterLatencies == {"umount", "remove", "publish", "publish latencies"}

Steps == {"idle", "results", "copy"} \union AfterCopy

Located ==
  /\ pc \in Steps /\ card \in Cards
  /\ pc # "idle" => ended = "none"

\* The output directory was emptied, and then has the text files of this card;
\* results/ has them before its latencies are published.
TextInv ==
  /\ pc = "copy" => card.booted /\ out = NoDir
  /\ pc \in AfterCopy /\ card.booted => out = Dir(card.txt)
  /\ pc = "publish latencies" => res = out

\* Every CSV of the card is among the files of d.
Covers(d) ==
  \A f \in DOMAIN card.csv : f \in DOMAIN d.files /\ d.files[f] = card.csv[f]

CsvInv == pc \in AfterLatencies /\ ~masked => Covers(lat)

CollectorInv == Located /\ TextInv /\ CsvInv /\ ResultsOfCard /\ LatenciesCover

-----------------------------------------------------------------------------
(* Copies of directories.                                                  *)

\* Into an empty directory all files are copied as they are.
LEMMA CopyIntoEmpty ==
  ASSUME NEW c \in Cards
  PROVE  Dir(Over(c.txt, NoDir.files)) = Dir(c.txt)
<1>1. c.txt = [l \in DOMAIN c.txt |-> c.txt[l]]
  BY CardsAssumption
<1>2. NoDir.files = <<>> /\ DOMAIN <<>> = {}
  BY DEF NoDir
<1>3. Over(c.txt, <<>>) = c.txt
  BY <1>1, <1>2 DEF Over
<1> QED
  BY <1>2, <1>3 DEF Dir

\* Over a directory with files, those copied are as in their source.
LEMMA CopyOver ==
  ASSUME LatenciesOver(DOMAIN card.csv), card' = card
  PROVE  Covers(lat)'
<1>1. lat' = Dir(Over(Only(card.csv, DOMAIN card.csv), lat.files))
  BY DEF LatenciesOver
<1>2. lat'.files = Over(Only(card.csv, DOMAIN card.csv), lat.files)
  BY <1>1 DEF Dir
<1> QED
  BY <1>2 DEF Covers, Only, Over

-----------------------------------------------------------------------------
\* The invariant holds at the start.
LEMMA CollectorInit == Init => CollectorInv
BY DEF Init, CollectorInv, Located, TextInv, CsvInv, ResultsOfCard, LatenciesCover,
       Steps, AfterCopy, AfterLatencies

\* A command that ends the script.
LEMMA AbortStep ==
  ASSUME CollectorInv, Abort, UNCHANGED card
  PROVE  CollectorInv'
BY DEF Abort, CollectorInv, Located, TextInv, CsvInv, ResultsOfCard, LatenciesCover,
       Steps, AfterCopy, AfterLatencies

\* The user runs a script that collects nothing.
LEMMA TableStep ==
  ASSUME CollectorInv, UNCHANGED <<pc, card_vars, output, results, ended>>
  PROVE  CollectorInv'
BY DEF card_vars, output, results, CollectorInv, Located, TextInv, CsvInv, Covers,
       ResultsOfCard, LatenciesCover

\* Every step keeps the invariant.
LEMMA CollectorStep == CollectorInv /\ [Next]_vars => CollectorInv'
<1> SUFFICES ASSUME CollectorInv, [Next]_vars PROVE CollectorInv'
  OBVIOUS
<1> USE DEF CollectorInv, Located, TextInv, CsvInv, ResultsOfCard, LatenciesCover,
            Steps, AfterCopy, AfterLatencies, Goes
<1>1. CASE Collect
  BY <1>1 DEF Collect, output, results
<1>2. CASE MountFails \/ CopyResultsFails \/ UnmountFails \/ PublishFails
           \/ PublishLatenciesFails
  BY <1>2, AbortStep DEF MountFails, CopyResultsFails, UnmountFails, PublishFails,
                         PublishLatenciesFails, card_vars
<1>3. CASE RemoveOld
  BY <1>3 DEF RemoveOld, card_vars, results
<1>4. CASE NoResults
  BY <1>4 DEF NoResults, card_vars, output, results
<1>5. CASE CopyResults
  <2>1. out' = Dir(Over(card.txt, NoDir.files)) /\ pc' = "latencies" /\ ended' = ended
        /\ UNCHANGED <<card, masked, lat, res, resLat>> /\ pc = "copy"
    BY <1>5 DEF CopyResults, card_vars, results
  <2>2. out' = Dir(card.txt)
    BY <2>1, CopyIntoEmpty
  <2> QED
    BY <2>1, <2>2
<1>6. CASE CopyLatencies
  <2>1. /\ pc = "latencies" /\ pc' = "umount" /\ ended' = ended
        /\ UNCHANGED <<card, out, res, resLat>>
        /\ masked' \/ LatenciesOver(DOMAIN card.csv)
    BY <1>6 DEF CopyLatencies, results
  <2>2. masked' \/ Covers(lat)'
    BY <2>1, CopyOver
  <2> QED
    BY <2>1, <2>2
<1>7. CASE Unmount
  BY <1>7 DEF Unmount, card_vars, output, results, Covers
<1>8. CASE RemovePublished
  BY <1>8 DEF RemovePublished, card_vars, output, Covers
<1>9. CASE PublishResults
  BY <1>9 DEF PublishResults, card_vars, output, Covers
<1>10. CASE NothingToPublish
  BY <1>10 DEF NothingToPublish, card_vars, output, results
<1>11. CASE PublishLatencies
  <2>1. /\ pc = "publish latencies" /\ pc' = "idle" /\ resLat' = lat
        /\ UNCHANGED <<card, masked, out, lat, res>>
    BY <1>11 DEF PublishLatencies, card_vars, output
  <2>2. card.booted => res' = Dir(card.txt)
    BY <2>1
  <2>3. ~masked => Covers(lat)
    BY <2>1
  <2> QED
    BY <2>1, <2>2, <2>3 DEF Covers
<1>12. CASE LatenciesOnly
  BY <1>12 DEF LatenciesOnly, results
<1>13. CASE PerfMetrics \/ PerInference \/ Stopped \/ UNCHANGED vars
  BY <1>13, TableStep DEF PerfMetrics, PerInference, Stopped, vars
<1> QED
  BY <1>1, <1>2, <1>3, <1>4, <1>5, <1>6, <1>7, <1>8, <1>9, <1>10, <1>11, <1>12, <1>13
  DEF Next

\* The invariant holds at all times.
LEMMA CollectorAlways == Spec => []CollectorInv
<1>1. Init => CollectorInv
  BY CollectorInit
<1>2. CollectorInv /\ [Next]_vars => CollectorInv'
  BY CollectorStep
<1> QED
  BY <1>1, <1>2, PTL DEF Spec

-----------------------------------------------------------------------------
(* What a collection promises.                                             *)

\* Whatever earlier collections left half done in the output directory or in
\* results/, a collection that ends well has published the text files of its
\* card and no others.
THEOREM PublishesItsCard == Spec => []ResultsOfCard
<1>1. CollectorInv => ResultsOfCard
  BY DEF CollectorInv
<1> QED
  BY <1>1, CollectorAlways, PTL

\* It has published every CSV of its card as the card has it, unless a copy
\* failed unnoticed.
THEOREM PublishesItsCsvs == Spec => []LatenciesCover
<1>1. CollectorInv => LatenciesCover
  BY DEF CollectorInv
<1> QED
  BY <1>1, CollectorAlways, PTL

\* No collection, however it ends, removes what was published before it has
\* copied all text files of a card that has any.
THEOREM RemovesOnlyAfterCopy == Spec => PublishedKept
<1>1. CollectorInv /\ [Next]_vars =>
        [res.there /\ ~res'.there => (card.booted => out = Dir(card.txt))]_vars
  <2> SUFFICES ASSUME CollectorInv, Next, res.there, ~res'.there
               PROVE  card.booted => out = Dir(card.txt)
    OBVIOUS
  <2>1. CASE RemovePublished
    BY <2>1 DEF RemovePublished, CollectorInv, TextInv, AfterCopy
  <2>2. CASE UNCHANGED res
    BY <2>2
  <2>3. CASE PublishResults
    BY <2>3 DEF PublishResults
  <2>4. CASE PublishFails
    <3>1. PICK S \in SUBSET DOMAIN out.files : res' = Dir(Only(out.files, S))
      BY <2>4 DEF PublishFails
    <3>2. res'.there
      BY <3>1 DEF Dir
    <3> QED
      BY <3>2
  <2> QED
    BY <2>1, <2>2, <2>3, <2>4
    DEF Next, Collect, MountFails, RemoveOld, NoResults, CopyResults, CopyResultsFails,
        CopyLatencies, Unmount, UnmountFails, NothingToPublish, PublishLatencies,
        PublishLatenciesFails, LatenciesOnly, PerfMetrics, PerInference, Stopped, vars,
        results
<1> QED
  BY <1>1, CollectorAlways, PTL DEF Spec, PublishedKept
=============================================================================
