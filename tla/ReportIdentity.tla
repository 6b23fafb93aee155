--------------------------- MODULE ReportIdentity ---------------------------
(***************************************************************************)
(* The names one run gives its document.  ReportRegistry takes it that     *)
(* every step of a run knows its document by one identity; here that       *)
(* identity is worked out again by each of them, from the job data, as the *)
(* code does: by the parse that keeps the markdown, by guessWikidata and   *)
(* checkDB before there are periods, and, when neither left a row or a     *)
(* shell in the job data, by the API from what the save sends it.  The     *)
(* periods of a save are of several years: the newest has the identity of  *)
(* the document, the others that of the documents they were saved from.    *)
(***************************************************************************)
EXTENDS Naturals

CONSTANTS
    Webs, Storages, Shas, \* urls on the web, of cached copies; hashes
    Absent,      \* a value that is not there
    JobData,     \* what a job may know of its document
    OlderPeriods \* what the period of another year may know of the one it is from

JobType == [url : Webs \cup Storages, sourceUrl : Webs \cup Storages \cup {Absent},
            publicUrl : Storages \cup {Absent}, sha256 : Shas \cup {Absent}]
PeriodIdentity == [reportURL : Webs \cup Storages \cup {Absent}, reportS3Url : Webs \cup Storages \cup {Absent},
                   reportSha256 : Shas \cup {Absent}]

ASSUME IdentityAssumption ==
    /\ Webs \cap Storages = {} /\ Absent \notin Webs \cup Storages \cup Shas
    /\ JobData \subseteq JobType /\ OlderPeriods \subseteq PeriodIdentity

VARIABLES
    jobData, \* what the job knows of the document
    older,   \* the period of another year in the save
    at,      \* the step the run is at
    linked,  \* checkDB has put a row into the job data
    names    \* the names given so far, by step

nvars == <<jobData, older, at, linked, names>>

NamesInit ==
    /\ jobData \in JobData
    /\ older \in OlderPeriods
    /\ at = "parse" /\ linked = FALSE
    /\ names = [s \in {} |-> jobData]

-----------------------------------------------------------------------------

Or(a, b) == IF a # Absent THEN a ELSE b
Web(u) == IF u \in Webs THEN u ELSE Absent
Storage(u) == IF u \in Storages THEN u ELSE Absent

canonicalPublicReportUrl(j) == Or(j.sourceUrl, j.url)

\* The url of a job is that of the copy unless it is the source itself.
JobS3Url(j) == IF j.url # j.sourceUrl THEN j.url ELSE Absent

buildPipelineReportIdentity(j) ==
    [reportURL |-> canonicalPublicReportUrl(j), reportS3Url |-> Or(j.publicUrl, JobS3Url(j)),
     reportSha256 |-> j.sha256]

\* The copy is left out when it is the primary url, and that is not itself a copy.
S3Url(storage, primary) ==
    IF storage = Absent THEN Storage(primary)
    ELSE IF storage # primary \/ primary \in Storages THEN storage ELSE Absent

\* A row is looked for by any of these.
Name(url, source, s3, sha) == [url |-> url, sourceUrl |-> source, s3Url |-> s3, sha256 |-> sha]

\* persistMarkdown and those who look for the markdown afterwards.
ParseName(j) ==
    LET i == buildPipelineReportIdentity(j)
    IN Name(i.reportURL, j.sourceUrl, i.reportS3Url, i.reportSha256)

\* Mutant: the url of the job, which may be that of the copy.
Mutant_buildEarlyRegistryPayload(j) == Name(j.url, Absent, Absent, Absent)

buildEarlyRegistryPayload(j) ==
    LET primary == Or(Web(j.sourceUrl), canonicalPublicReportUrl(j))
        storage == Or(j.publicUrl, Or(Storage(j.url), Storage(JobS3Url(j))))
    IN Name(primary, Web(j.sourceUrl), S3Url(storage, primary), j.sha256)

\* What the save knows, filled up from its periods: the copy and the hash from any of them.
mergeReportIdentityFromPeriods(j, periods) ==
    LET i == buildPipelineReportIdentity(j)
        Any(f(_)) == IF \E n \in DOMAIN periods : f(periods[n]) # Absent
                     THEN f(periods[CHOOSE n \in DOMAIN periods : f(periods[n]) # Absent
                                        /\ \A m \in DOMAIN periods : f(periods[m]) # Absent => n <= m])
                     ELSE Absent
    IN [url |-> i.reportURL, sourceUrl |-> j.sourceUrl,
        publicUrl |-> Or(i.reportS3Url, Any(LAMBDA p : p.reportS3Url)),
        sha256 |-> Or(i.reportSha256, Any(LAMBDA p : p.reportSha256))]

\* The period of the document: by hash, by copy, by url, else the first with a url.
findMatchingPeriod(m, periods) ==
    LET With(f(_), v) == {n \in DOMAIN periods : v # Absent /\ f(periods[n]) = v}
        byHash == With(LAMBDA p : p.reportSha256, m.sha256)
        byCopy == With(LAMBDA p : p.reportS3Url, Or(m.publicUrl, JobS3Url(m)))
        byUrl == With(LAMBDA p : p.reportURL, canonicalPublicReportUrl(m))
        any == {n \in DOMAIN periods : periods[n].reportURL # Absent}
        hits == IF byHash # {} THEN byHash ELSE IF byCopy # {} THEN byCopy
                ELSE IF byUrl # {} THEN byUrl ELSE IF any # {} THEN any ELSE {1}
    IN periods[CHOOSE n \in hits : \A k \in hits : n <= k]

\* The API's: what the period says comes first.
buildRegistryPayload(j, periods) ==
    LET m == mergeReportIdentityFromPeriods(j, periods)
        p == findMatchingPeriod(m, periods)
        web == Or(Web(p.reportURL), Or(Web(m.sourceUrl), Web(canonicalPublicReportUrl(m))))
        primary == Or(web, Or(p.reportURL, canonicalPublicReportUrl(m)))
        storage == Or(p.reportS3Url, Or(m.publicUrl, Or(Storage(m.url), Storage(JobS3Url(m)))))
    IN Name(primary, Web(m.sourceUrl), S3Url(storage, primary), Or(m.sha256, p.reportSha256))

-----------------------------------------------------------------------------

Add(step, name) == names' = [s \in DOMAIN names \cup {step} |-> IF s = step THEN name ELSE names[s]]

Parse ==
    /\ at = "parse" /\ at' = "early"
    /\ Add("parse", ParseName(jobData))
    /\ UNCHANGED <<jobData, older, linked>>

\* checkDB's upsert may fail, and with it what the job knows of the row.
CheckDBNames ==
    /\ at = "early" /\ at' = "save"
    /\ Add("early", buildEarlyRegistryPayload(jobData))
    /\ linked' \in BOOLEAN
    /\ UNCHANGED <<jobData, older>>

\* The periods come in the order the years were extracted in.
SavePeriods ==
    /\ at = "save" /\ at' = "saved"
    /\ IF linked THEN UNCHANGED names
       ELSE LET own == buildPipelineReportIdentity(jobData)
            IN \E periods \in {<<own, older>>, <<older, own>>} :
                  Add("save", buildRegistryPayload(jobData, periods))
    /\ UNCHANGED <<jobData, older, linked>>

NamesNext == Parse \/ CheckDBNames \/ SavePeriods

NamesSpec == NamesInit /\ [][NamesNext]_nvars

-----------------------------------------------------------------------------

\* A row written with the name m is found by the name n: buildReportMatchConditions.
FindsTheRow(n, m) ==
    \/ n.sha256 # Absent /\ n.sha256 = m.sha256
    \/ n.sourceUrl # Absent /\ n.sourceUrl \in {m.sourceUrl, m.url}
    \/ n.url \in {m.url, m.sourceUrl}
    \/ n.s3Url # Absent /\ n.s3Url = m.s3Url

\* A cached copy has a url and a hash.
CopyKnown == jobData.publicUrl # Absent /\ jobData.sha256 # Absent
NothingOlder == older.reportS3Url = Absent /\ older.reportSha256 = Absent

\* Whichever step of a run writes the row of its document first, every other finds it: uploads,
\* links with and without a copy, and links the pipeline got as a copy alone.  The API's own name
\* is one of them when it need not be filled up from the periods of other documents.
EveryStepFindsTheRow ==
    \A s, t \in DOMAIN names :
        (CopyKnown \/ NothingOlder \/ "save" \notin {s, t}) => FindsTheRow(names[s], names[t])

\* doc/REPORT_REGISTRY.md:87: "When a report arrives, we search for existing rows matching any
\* identity field"; 100: "Multiple matches - the same document was indexed more than once".  What
\* a save is looked for by is of its own document alone.
SavesNameOneDocument ==
    "save" \in DOMAIN names =>
        {names["save"].url, names["save"].s3Url, names["save"].sha256} \subseteq
            {jobData.url, jobData.sourceUrl, jobData.publicUrl, jobData.sha256, Absent}
=============================================================================
