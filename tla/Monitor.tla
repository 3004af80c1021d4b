------------------------------ MODULE Monitor ------------------------------
(***************************************************************************)
(* The breach monitor (monitor/page, lib/breaches): scans of the vault's   *)
(* passwords and of email addresses against two outside services, beside   *)
(* everything that locks the store or replaces its contents.  The caches   *)
(* live as long as the tab; the scans of a page that was left go on and    *)
(* fill them.  An item stands for its password; its id for the five        *)
(* characters of the hash that are sent.  `said` is history: what the      *)
(* services have ever answered to this tab.                                *)
(***************************************************************************)
EXTENDS Transfer

CONSTANTS
    Emails,    \* addresses that are scanned
    MaxMounts  \* bound on how often the page is opened

ASSUME MonitorAssumption == Emails # {} /\ MaxMounts \in Nat \ {0}

VARIABLES
    corpus,    \* passwords and addresses the services know
    ranges,    \* RANGE_CACHE: at most one answer for each prefix
    verdicts,  \* PASSWORD_CACHE and XON_CACHE
    mounts,    \* the scans of every time the page was opened, the last on the screen
    said

monitorVars == <<corpus, ranges, verdicts, mounts, said>>

Verdicts == {"clean", "known"}

Scan == [state : {"idle", "scanning", "fetching", "done", "error"},
         seen : SeqOf(Item, MaxItems), scanned : 0 .. MaxItems, pwned : SUBSET Item]

\* target is what was scanned last, result what its answer was.
Mail == [state : {"idle", "scanning", "done", "error"}, target : Emails, result : Verdicts]

MonitorTypeOK ==
    /\ corpus \subseteq Item \cup Emails
    /\ \A i \in Ids : ranges[i] \subseteq SUBSET Item
    /\ verdicts \in [Item \cup Emails -> Verdicts \cup {"unknown"}]
    /\ \A n \in DOMAIN mounts : mounts[n].passwords \in Scan /\ mounts[n].mail \in Mail
    /\ said \subseteq (Item \cup Emails) \X Verdicts

NewMount ==
    [passwords |-> [state |-> "idle", seen |-> <<>>, scanned |-> 0, pwned |-> {}],
     mail |-> [state |-> "idle", target |-> CHOOSE e \in Emails : TRUE, result |-> "clean"]]

MonitorInit ==
    /\ corpus \in SUBSET ([id : Ids \ {NewId}, body : {"old"}] \cup Emails)
    /\ ranges = [i \in Ids |-> {}]
    /\ verdicts = [x \in Item \cup Emails |-> "unknown"]
    /\ mounts = <<NewMount>>
    /\ said = {}

-----------------------------------------------------------------------------

Verdict(x, known) == IF x \in known THEN "known" ELSE "clean"

Tell(xs) == said' = said \cup {<<x, Verdict(x, corpus)>> : x \in xs}

Passwords(n, s) == mounts' = [mounts EXCEPT ![n].passwords = s]

\* runPasswordScan, with the items of the render.
ScanPasswords ==
    LET n == Len(mounts) IN
    /\ open /\ mounts[n].passwords.state = "idle"
    /\ Passwords(n, [state |-> "scanning", seen |-> store.items, scanned |-> 0, pwned |-> {}])
    /\ UNCHANGED <<corpus, ranges, verdicts, said>>

Current(s) == s.seen[s.scanned + 1]

\* The loop goes on with the next item.
Recorded(s, verdict) ==
    [s EXCEPT !.state = "scanning", !.scanned = @ + 1,
              !.pwned = IF verdict = "known" THEN @ \cup {Current(s)} ELSE @]

\* checkPasswordBreachCount, as far as its fetch.
LookUp(n) ==
    LET s == mounts[n].passwords
        p == Current(s)
        found == IF verdicts[p] # "unknown" THEN verdicts[p] ELSE Verdict(p, UNION ranges[p.id]) IN
    /\ s.state = "scanning" /\ s.scanned < Len(s.seen)
    /\ \/ /\ verdicts[p] = "unknown" /\ ranges[p.id] = {}
          /\ Passwords(n, [s EXCEPT !.state = "fetching"])
          /\ UNCHANGED verdicts
       \/ /\ verdicts[p] # "unknown" \/ ranges[p.id] # {}
          /\ Passwords(n, Recorded(s, found))
          /\ verdicts' = [verdicts EXCEPT ![p] = found]
    /\ UNCHANGED <<corpus, ranges, said>>

\* The service answers with all it knows of the prefix.
RangeArrives(n) ==
    LET s == mounts[n].passwords
        p == Current(s) IN
    /\ s.state = "fetching"
    /\ ranges' = [ranges EXCEPT ![p.id] = {{x \in Item \cap corpus : x.id = p.id}}]
    /\ verdicts' = [verdicts EXCEPT ![p] = Verdict(p, corpus)]
    /\ Passwords(n, Recorded(s, Verdict(p, corpus)))
    /\ Tell({x \in Item : x.id = p.id})
    /\ UNCHANGED corpus

\* Defect: a failed lookup counts as zero breaches.
RangeFailsClean(n) ==
    LET s == mounts[n].passwords IN
    /\ s.state = "fetching"
    /\ Passwords(n, Recorded(s, "clean"))
    /\ UNCHANGED <<corpus, ranges, verdicts, said>>

\* fetch throws, or the status is not ok: the scan ends with an error.
RangeFails(n) ==
    LET s == mounts[n].passwords IN
    /\ s.state = "fetching"
    /\ Passwords(n, [s EXCEPT !.state = "error"])
    /\ UNCHANGED <<corpus, ranges, verdicts, said>>

FinishScan(n) ==
    LET s == mounts[n].passwords IN
    /\ s.state = "scanning" /\ s.scanned = Len(s.seen)
    /\ Passwords(n, [s EXCEPT !.state = "done"])
    /\ UNCHANGED <<corpus, ranges, verdicts, said>>

-----------------------------------------------------------------------------

\* The effect of an idle page, Re-scan, Retry or the form; what is cached is
\* shown at once.
ScanEmail(e) ==
    LET n == Len(mounts)
        m == mounts[n].mail IN
    /\ open /\ m.state # "scanning"
    /\ mounts' = [mounts EXCEPT ![n].mail =
           IF verdicts[e] = "unknown" THEN [m EXCEPT !.state = "scanning", !.target = e]
           ELSE [state |-> "done", target |-> e, result |-> verdicts[e]]]
    /\ UNCHANGED <<corpus, ranges, verdicts, said>>

BreachesArrive(n) ==
    LET m == mounts[n].mail
        found == Verdict(m.target, corpus) IN
    /\ m.state = "scanning"
    /\ mounts' = [mounts EXCEPT ![n].mail = [m EXCEPT !.state = "done", !.result = found]]
    /\ verdicts' = [verdicts EXCEPT ![m.target] = found]
    /\ Tell({m.target})
    /\ UNCHANGED <<corpus, ranges>>

BreachesFail(n) ==
    /\ mounts[n].mail.state = "scanning"
    /\ mounts' = [mounts EXCEPT ![n].mail.state = "error"]
    /\ UNCHANGED <<corpus, ranges, verdicts, said>>

\* The page is left, perhaps to unlock the vault, and opened again.
OpenMonitor ==
    /\ Len(mounts) < MaxMounts
    /\ mounts' = Append(mounts, NewMount)
    /\ UNCHANGED <<corpus, ranges, verdicts, said>>

\* The services come to know more.
Leak(x) ==
    /\ x \notin corpus
    /\ corpus' = corpus \cup {x}
    /\ UNCHANGED <<ranges, verdicts, mounts, said>>

Scans ==
    \/ ScanPasswords
    \/ \E e \in Emails : ScanEmail(e)
    \/ \E n \in DOMAIN mounts :
          \/ LookUp(n) \/ RangeArrives(n) \/ RangeFails(n) \/ FinishScan(n)
          \/ BreachesArrive(n) \/ BreachesFail(n)

MonitorNext ==
    \/ Scans /\ UNCHANGED allVars
    \/ Spend /\ (\E x \in ToSet(store.items) \cup Emails : Leak(x))
             /\ UNCHANGED <<clockVars, store, handlers, busy, files, held>>
    \/ OpenMonitor /\ IF open THEN UNCHANGED allVars ELSE \E c \in held : Unlock(c)
    \/ (LockClicked \/ \E c \in files : Adopt(c)) /\ UNCHANGED monitorVars

-----------------------------------------------------------------------------
(* Properties *)

\* "Callers should distinguish clean from could not check": a report that is
\* done covers every password of the vault that was scanned, and calls clean
\* or exposed only what the service has said to be so, through caches,
\* failures, locks and scans of pages that were left; the email report is the
\* service's answer for the address scanned last.
NothingUncheckedIsClean ==
    \A n \in DOMAIN mounts :
        LET s == mounts[n].passwords
            m == mounts[n].mail IN
        /\ s.state = "done" =>
              \A p \in ToSet(s.seen) : <<p, Verdict(p, s.pwned)>> \in said
        /\ m.state = "done" => <<m.target, m.result>> \in said

=============================================================================
