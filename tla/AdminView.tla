------------------------------ MODULE AdminView ------------------------------
(***************************************************************************)
(* What the administration pages say of the shares: the status, the state  *)
(* and the timeline of a share, the filters and figures of the list, and   *)
(* the figures of the dashboard.  They are computed from the rows alone,   *)
(* by predicates of their own, in SQL and in Python.                       *)
(***************************************************************************)
EXTENDS ShareLifecycle

\* The table is finite.
ASSUME FiniteShares == IsFiniteSet(Shares)

\* _build_admin_file_item: what it derives from the row.
HasLimit(s)  == count[s] >= 0
Permanent(s) == exp[s] = NoTime /\ count[s] < 0
Remaining(s) == IF count[s] > 0 THEN count[s] ELSE 0
Exhausted(s) == HasLimit(s) /\ Remaining(s) = 0
Status(s)    == IF IsExpired(s) THEN "expired" ELSE "active"

\* _build_file_status_insights.  The metadata of a row written by an upload
\* are complete, so that "storage_incomplete" never shows.
ExpiresSoon(s) == exp[s] # NoTime /\ 0 < exp[s] - now /\ exp[s] - now <= Day

\* Fault, in no action: only the expiry makes a share an expired one.
StateByExpiry(s) ==
    IF IsExpired(s) THEN "expired"
    ELSE IF ExpiresSoon(s) THEN "expiring_soon"
    ELSE IF Permanent(s) THEN "permanent"
    ELSE "available"
State(s) ==
    IF IsExpired(s) \/ Exhausted(s) THEN "expired"
    ELSE IF ExpiresSoon(s) THEN "expiring_soon"
    ELSE IF Permanent(s) THEN "permanent"
    ELSE "available"

Severity(s) == IF State(s) = "expired" THEN "danger"
               ELSE IF State(s) = "expiring_soon" THEN "warning"
               ELSE "success"

Reasons(s) ==
    {r \in {"expired", "download_limit_exhausted", "expires_soon",
            "never_retrieved"} :
        \/ r = "expired" /\ IsExpired(s)
        \/ r = "download_limit_exhausted" /\ Exhausted(s)
        \/ r = "expires_soon" /\ ExpiresSoon(s)
        \/ r = "never_retrieved" /\ used[s] = 0}

\* _build_file_timeline: the entries on the expiry and on the limit.
TimelineExpiry(s) == IF Permanent(s) THEN "unlimited"
                     ELSE IF exp[s] = NoTime THEN "none"
                     ELSE IF exp[s] <= now THEN "expired" ELSE "pending"
TimelineLimit(s) == IF ~HasLimit(s) THEN "unlimited"
                    ELSE IF Exhausted(s) THEN "exhausted" ELSE "active"

-----------------------------------------------------------------------------
(* The list, its filters and its figures.                                  *)

\* _match_admin_file_health.
MatchesHealth(s, health) ==
    \/ health \in {"", "all"}
    \/ health = "attention" /\ Severity(s) \in {"danger", "warning"}
    \/ health \in {"danger", "warning"} /\ Severity(s) = health
    \/ health = "expired" /\ (State(s) = "expired" \/ IsExpired(s))
    \/ health = "expiring_soon" /\ "expires_soon" \in Reasons(s)
    \/ health = "never_retrieved" /\ "never_retrieved" \in Reasons(s)
    \/ health = "healthy" /\ Severity(s) = "success"
    \/ health = "permanent" /\ State(s) = "permanent"

\* _match_admin_file, without the keyword.
Matches(s, status, type, health) ==
    /\ status \in {"active", "expired"} => Status(s) = status
    /\ type = "text" => s \in Texts
    /\ type = "file" => s \notin Texts
    /\ MatchesHealth(s, health)

\* list_files: the rows behind a page, and behind its figures.
Listed(status, type, health) == {s \in live : Matches(s, status, type, health)}

\* _accumulate_health_summary and build_file_health_summary: the figures a
\* share counts for, by predicates that are not those of the filters, and the
\* summary that heads the list and the dashboard.
Figures == {"attention", "danger", "warning", "healthy", "permanent",
            "expiring_soon", "never_retrieved"}

CountsFor(s, figure) ==
    \/ figure = "attention" /\ Severity(s) # "success"
    \/ figure = "healthy" /\ Severity(s) = "success"
    \/ figure \in {"danger", "warning"} /\ figure = Severity(s)
    \/ figure = "permanent" /\ figure = State(s)
    \/ figure = "expiring_soon" /\ "expires_soon" \in Reasons(s)
    \/ figure = "never_retrieved" /\ figure \in Reasons(s)

HealthSummary == [f \in Figures |-> Cardinality({s \in live : CountsFor(s, f)})]

-----------------------------------------------------------------------------
(* The dashboard counts in SQL.                                            *)

\* _expired_predicate
ExpiredInSQL(s) == /\ exp[s] # NoTime
                   /\ \/ count[s] < 0 /\ exp[s] < now
                      \/ count[s] = 0
DashboardExpired == {s \in live : ExpiredInSQL(s)}
DashboardActive  == Cardinality(live) - Cardinality(DashboardExpired)

-----------------------------------------------------------------------------
(* Properties.                                                             *)

\* A share without an expiry time whose uses are spent: is_expired looks at
\* the limit of a share only if it has an expiry time.
SpentWithoutExpiry(s) == exp[s] = NoTime /\ count[s] = 0

\* A share is refused at the instant of its expiry, and expired after it.
AtItsExpiry(s) == count[s] < 0 /\ exp[s] = now

\* The state that the insights show tells what a visitor will meet: a share
\* shown as expired is one that consume_file_usage refuses, and it refuses no
\* other, but for the very instant of an expiry.
StateIsWhatRetrievalDoes ==
    \A s \in live :
        /\ State(s) = "expired" => ~Eligible(s)
        /\ ~Eligible(s) => State(s) = "expired" \/ AtItsExpiry(s)

\* The status, its filter and the figures of the dashboard tell less.  What
\* they call expired is refused and going to be deleted; but among the active
\* are, beside the shares that retrieval serves and those at the instant of
\* their expiry, all whose uses are spent and that have no expiry time, which
\* retrieval refuses, the task deletes and the state calls expired.  The task
\* takes one more kind of active share: a limited one past its expiry.
StatusMissesOnlySpent ==
    /\ \A s \in live :
          /\ Status(s) = "expired" => ~Eligible(s) /\ Lapsed(s)
          /\ Status(s) = "active" <=> \/ Eligible(s)
                                      \/ SpentWithoutExpiry(s)
                                      \/ AtItsExpiry(s)
          /\ SpentWithoutExpiry(s) =>
                ~Eligible(s) /\ Lapsed(s) /\ State(s) = "expired"
          /\ Lapsed(s) /\ Status(s) = "active" =>
                \/ SpentWithoutExpiry(s)
                \/ count[s] > 0 /\ exp[s] # NoTime /\ exp[s] < now
    /\ DashboardActive =
          Cardinality({s \in live : Eligible(s)})
          + Cardinality({s \in live : SpentWithoutExpiry(s) \/ AtItsExpiry(s)})

\* The timeline marks every share that the expiry task is going to delete,
\* those among them whose status is "active" as well.
TimelineForetellsRemoval ==
    \A s \in live : Lapsed(s) =>
        TimelineExpiry(s) = "expired" \/ TimelineLimit(s) = "exhausted"

\* The dashboard and the list count the same shares as expired and as active,
\* none of those expired is missing from the filter for trouble, and every
\* figure of the health summary is the length of the list its filter shows.
FiguresAgree ==
    /\ DashboardExpired = Listed("expired", "", "")
    /\ DashboardActive = Cardinality(Listed("active", "", ""))
    /\ Listed("expired", "", "") \subseteq Listed("", "", "danger")
    /\ \A f \in Figures : HealthSummary[f] = Cardinality(Listed("", "", f))

\* What the administration says of a share, against what retrieval and the
\* expiry task do with it: state and timeline follow them, status and
\* dashboard but for the shares spent without an expiry time, and the pages
\* agree among themselves.
ViewsAgree ==
    /\ StateIsWhatRetrievalDoes
    /\ StatusMissesOnlySpent
    /\ TimelineForetellsRemoval
    /\ FiguresAgree
=============================================================================
