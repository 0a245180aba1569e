---------------------------- MODULE HyperlinkCheck ----------------------------
(***************************************************************************)
(* The check of hyperlinks (checks/hyperlinks.py): a pool of threads asks  *)
(* for the targets of a document, following redirects, while the others    *)
(* are judged by their form; the report puts the results together.         *)
(*                                                                         *)
(* What the web answers, and where it redirects to, is open at every       *)
(* request.  A host is looked up to judge a target, and once more for each *)
(* request to it; its addresses may change at any time.  Of the URL that a *)
(* probe is at, the model keeps what is known of its host.                 *)
(***************************************************************************)
EXTENDS Naturals, Sequences, SequencesExt, FiniteSets, FiniteSetsExt

CONSTANTS
  Url,           \* HTTP targets
  Form,          \* Form[t]: what a target that is no HTTP target looks like
  Document,      \* lists of links: [target, there], "there" for internal links
  MaxTargets,    \* HYPERLINK_MAX_NETWORK_TARGETS
  Concurrency,   \* HYPERLINK_NETWORK_CONCURRENCY
  MaxRedirects,  \* HYPERLINK_MAX_REDIRECTS
  IssueLimit     \* issue_limit of the task

Forms == {"missing", "internal", "malformed", "other"}

LinksAssumption == \A t \in DOMAIN Form : Form[t] \in Forms /\ t \notin Url
LinkBoundsAssumption ==
  MaxTargets \in Nat /\ Concurrency \in Nat \ {0} /\ MaxRedirects \in Nat /\ IssueLimit \in Nat

VARIABLES
  doc,      \* the links of the document
  results,  \* the result of each group of links with one target, "none" before
  pc,       \* where the probe of a group is
  hops,     \* redirect_count
  last,     \* history: method and status of the last answer of a probe
  report,   \* counts, shown and hidden items; empty before the end
  host,     \* host of current_url of a probe: "unknown", "global" if it was looked up and
            \* has these addresses still, "moved" if it has others by now
  astray    \* history: hosts that were asked although they may not be global

vars == <<doc, results, pc, hops, last, report, host, astray>>

-----------------------------------------------------------------------------
\* _group_hyperlinks: the targets in the order of their first links.
Groups(links) ==
  FoldLeft(LAMBDA list, link :
             IF link.target \in ToSet(list) THEN list ELSE Append(list, link.target),
           <<>>, links)

Group == Groups(doc)
Index == DOMAIN Group

\* internal_states of a group.
There(links, target) ==
  {link.there : link \in {l \in ToSet(links) : l.target = target}} \ {"unknown"}

\* _check_without_network; "none" for an HTTP target.
LocalResult(links, target) ==
  CASE target \in Url -> "none"
    [] target \notin Url /\ Form[target] \in {"missing", "malformed"} -> "issue"
    [] target \notin Url /\ Form[target] = "other" -> "skipped"
    [] OTHER -> CASE "no" \in There(links, target) -> "issue"
                  [] There(links, target) = {"yes"} -> "valid"
                  [] OTHER -> "skipped"

Networked(links) == {i \in DOMAIN Groups(links) : Groups(links)[i] \in Url}

\* The first targets only; the rest is skipped.
Covered(links) ==
  {i \in Networked(links) : Cardinality({j \in Networked(links) : j < i}) < MaxTargets}

\* Kinds of status: 2xx, redirects, 404 and 410, 401 and 403, 400, 405 and 501, others.
Statuses == {"ok", "redirect", "gone", "denied", "refused", "other"}
Fallback == {"gone", "denied", "refused"}

Init ==
  /\ doc \in Document
  /\ results = [i \in Index |->
                  IF i \in Networked(doc) \ Covered(doc) THEN "skipped"
                  ELSE LocalResult(doc, Group[i])]
  /\ pc = [i \in Index |-> IF i \in Covered(doc) THEN "queued" ELSE "done"]
  /\ hops = [i \in Index |-> 0]
  /\ last = [i \in Index |-> <<"none", "none">>]
  /\ report = <<>>
  /\ host = [i \in Index |-> "unknown"]
  /\ astray = {}

Running == {i \in Index : pc[i] \notin {"queued", "done"}}

Goto(i, point) == pc' = [pc EXCEPT ![i] = point]

Ends(i, result) ==
  /\ results' = [results EXCEPT ![i] = result]
  /\ Goto(i, "done")

\* The executor starts the probes in the order in which they were submitted.
Start(i) ==
  /\ pc[i] = "queued" /\ \A j \in Index : pc[j] = "queued" => i <= j
  /\ Cardinality(Running) < Concurrency
  /\ Goto(i, "resolve")
  /\ UNCHANGED <<doc, results, hops, last, report, host, astray>>

\* _ensure_safe_http_destination, before the first request and after every redirect: the
\* look-up fails, finds an address that is not global, or finds none.
Resolve(i) ==
  /\ pc[i] = "resolve"
  /\ \/ Ends(i, "suggestion") /\ UNCHANGED host
     \/ /\ host' = [host EXCEPT ![i] = "global"]
        /\ Goto(i, "HEAD") /\ UNCHANGED results
  /\ UNCHANGED <<doc, hops, last, report, astray>>

\* The world outside: a host gets other addresses.
Rename(i) ==
  /\ i \in Running /\ host[i] = "global"
  /\ host' = [host EXCEPT ![i] = "moved"]
  /\ UNCHANGED <<doc, results, pc, hops, last, report, astray>>

\* A redirect that is followed: nothing is known of the new target.
Follow(i, point) ==
  /\ hops[i] < MaxRedirects
  /\ hops' = [hops EXCEPT ![i] = @ + 1]
  /\ host' = [host EXCEPT ![i] = "unknown"]
  /\ Goto(i, point)
  /\ UNCHANGED results

\* Mutant of Judge: the target of a redirect is asked at once.
JudgeOnce(i, status) ==
  LET Stop(result) == Ends(i, result) /\ UNCHANGED <<hops, host>> IN
  CASE status = "ok" -> Stop("valid")
    [] status = "gone" -> Stop("issue")
    [] status = "redirect" -> Stop("suggestion") \/ Follow(i, "HEAD")
    [] OTHER -> Stop("suggestion")

\* The decision on the final status of a request.
Judge(i, status) ==
  LET Stop(result) == Ends(i, result) /\ UNCHANGED <<hops, host>> IN
  CASE status = "ok" -> Stop("valid")
    [] status = "gone" -> Stop("issue")
    [] status = "redirect" -> Stop("suggestion") \/ Follow(i, "resolve")
    [] OTHER -> Stop("suggestion")

\* session.request looks the host up once more.
Sent(i) == astray' = IF host[i] = "global" THEN astray ELSE astray \cup {host[i]}

\* HEAD; what it refuses is asked again with GET.
RequestUrl(i, method) ==
  /\ pc[i] = method
  /\ Sent(i)
  /\ \E status \in Statuses :
       /\ last' = [last EXCEPT ![i] = <<method, status>>]
       /\ IF method = "HEAD" /\ status \in Fallback
          THEN Goto(i, "GET") /\ UNCHANGED <<results, hops, host>>
          ELSE Judge(i, status)
  /\ UNCHANGED <<doc, report>>

\* Certificates, connections, time-outs, and whatever else the probe raises.
RequestFails(i) ==
  /\ pc[i] \in {"HEAD", "GET"}
  /\ Sent(i)
  /\ last' = [last EXCEPT ![i] = <<pc[i], "error">>]
  /\ Ends(i, "suggestion")
  /\ UNCHANGED <<doc, hops, report, host>>

With(result) == {i \in Index : results[i] = result}
Listed == With("issue") \cup With("suggestion")
Shown == Min({Cardinality(Listed), Max({1, IssueLimit})})

Finish ==
  /\ report = <<>> /\ \A i \in Index : pc[i] = "done"
  /\ report' = [valid |-> Cardinality(With("valid")), issue |-> Cardinality(With("issue")),
                suggestion |-> Cardinality(With("suggestion")),
                skipped |-> Cardinality(With("skipped")),
                shown |-> Shown, hidden |-> Cardinality(Listed) - Shown]
  /\ UNCHANGED <<doc, results, pc, hops, last, host, astray>>

Next ==
  \/ \E i \in Index :
       \/ Start(i) \/ Resolve(i) \/ RequestUrl(i, "HEAD") \/ RequestUrl(i, "GET")
       \/ RequestFails(i) \/ Rename(i)
  \/ Finish

Spec == Init /\ [][Next]_vars

-----------------------------------------------------------------------------
\* README.md:258: private addresses are not asked for.  Every target, also that of each
\* redirect, has been looked up and found global before it is requested: only a host that
\* got other addresses between the two look-ups can lead elsewhere.  (A proxy looks hosts
\* up itself; what it finds is not known to the program.)
OnlyGlobalAsked == astray \subseteq {"moved"}

\* README.md:258: a link that was asked for is an issue only if GET itself was answered
\* 404 or 410; a refused HEAD, a log-in, a failure or a long chain is a suggestion.
IssueIsCertain ==
  \A i \in Covered(doc) :
    /\ results[i] = "issue" => last[i] = <<"GET", "gone">>
    /\ results[i] = "valid" => last[i][2] = "ok"
    /\ hops[i] <= MaxRedirects

\* Every target of the document counts once, in whatever order the probes end, and the
\* items that the report does not show are announced.
EveryTargetCounted ==
  report # <<>> =>
    /\ report.valid + report.issue + report.suggestion + report.skipped
         = Cardinality({link.target : link \in ToSet(doc)})
    /\ report.shown + report.hidden = report.issue + report.suggestion
    /\ report.issue + report.suggestion > 0 => report.shown > 0

\* Requests of the checks of links: where they go, and what is concluded from the answers.
RequestsSafe == OnlyGlobalAsked /\ IssueIsCertain
=============================================================================
