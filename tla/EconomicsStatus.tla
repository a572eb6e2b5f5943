---------------------------- MODULE EconomicsStatus ----------------------------
(***************************************************************************)
(* What the balance says of itself (coordinator.py,                        *)
(* _update_economics_price_availability and the _publish_ methods;         *)
(* domain/economics_status.py).  Every poll sees whether a price can be    *)
(* quoted, books the energy of its interval with or without a price into   *)
(* the counters of the calendar day, and publishes one status out of       *)
(* several problems.                                                       *)
(***************************************************************************)
EXTENDS Integers

CONSTANTS LastPoll,       \* the number of polls
          GracePolls,     \* ECONOMICS_PRICE_UNAVAILABLE_GRACE_PERIOD
          MinUnpriced,    \* MIN_UNPRICED_KWH_FOR_PARTIAL, in intervals
          CoveragePercent,\* PRICE_COVERAGE_THRESHOLD_PERCENT
          NoAmount        \* counters that do not exist, an instant not set

ASSUME StatusBounds ==
    /\ LastPoll \in Nat /\ GracePolls \in Nat /\ MinUnpriced \in Nat
    /\ CoveragePercent \in 0..100 /\ NoAmount \notin Int

VARIABLES
    polls,             \* the clock: polls so far
    unavailableSince,  \* _economics_price_unavailable_since
    priceUnavailable,  \* _economics_price_unavailable
    quoteAvailable,    \* _economics_quote_available
    lastQuote,         \* _economics_last_successful_quote_at
    booked,            \* the balance is started: the counters of the day
    originKnown,       \* _energy_origin_initialized()
    diskError,         \* _economics_storage_error
    status,            \* data["economics_status"]
    outcome,           \* history: what the last poll saw
    lastPriced,        \* history: the last poll that had a price or no tariff
    missingSince       \* history: the first of an unbroken run of polls
                       \*   without a price although the tariff is complete

statusVars == <<polls, unavailableSince, priceUnavailable, quoteAvailable,
                lastQuote, booked, originKnown, diskError, status,
                outcome, lastPriced, missingSince>>

-----------------------------------------------------------------------------
\* A poll sees no tariff, a price, a tariff that is stored incompletely, or a
\* price sensor without a price for this moment.
Outcomes == {"off", "price", "incomplete", "missing"}
Statuses == {"disabled", "storage_error", "price_unavailable",
             "origin_unavailable", "partial_price_coverage", "active"}
Sides == {"charge", "discharge"}
EmptyDay == [side \in Sides |-> [priced |-> 0, unpriced |-> 0]]
Started == booked # NoAmount

\* is_price_coverage_partial: a gap that matters in energy and in share.
Partial(day, side) ==
    /\ day[side].unpriced >= MinUnpriced /\ day[side].unpriced > 0
    /\ 100 * day[side].priced
         < CoveragePercent * (day[side].priced + day[side].unpriced)

\* compute_economics_status: the order of the problems is fixed.
StatusOf(seen, unavailable, day) ==
    IF seen = "off" THEN "disabled"
    ELSE IF diskError THEN "storage_error"
    ELSE IF unavailable THEN "price_unavailable"
    ELSE IF ~originKnown THEN "origin_unavailable"
    ELSE IF day # NoAmount /\ \E side \in Sides : Partial(day, side)
         THEN "partial_price_coverage" ELSE "active"

-----------------------------------------------------------------------------
StatusInit ==
    /\ polls = 0 /\ unavailableSince = NoAmount
    /\ priceUnavailable = FALSE /\ quoteAvailable = FALSE
    /\ lastQuote = NoAmount /\ booked = NoAmount
    /\ originKnown = FALSE /\ diskError = FALSE
    /\ status = "disabled"
    /\ outcome = "off" /\ lastPriced = 0 /\ missingSince = NoAmount

\* A slip: the period of grace begins again with every poll.
AvailabilityRestarted(seen, now) ==
    /\ quoteAvailable' = (seen = "price")
    /\ unavailableSince' = IF seen = "missing" THEN now ELSE NoAmount
    /\ priceUnavailable' =
         (seen = "incomplete" \/ (seen = "missing" /\ GracePolls = 0))
    /\ UNCHANGED lastQuote

\* _update_economics_price_availability, and the reset without a tariff: an
\* incomplete tariff is reported at once and neither starts nor ends the
\* period of grace.
Availability(seen, now) ==
    /\ quoteAvailable' = (seen = "price")
    /\ lastQuote' = IF seen = "price" /\ ~quoteAvailable THEN now ELSE lastQuote
    /\ unavailableSince' =
         CASE seen \in {"off", "price"} -> NoAmount
           [] seen = "missing" /\ unavailableSince = NoAmount -> now
           [] OTHER -> unavailableSince
    /\ priceUnavailable' =
         CASE seen \in {"off", "price"} -> FALSE
           [] seen = "incomplete" -> TRUE
           [] OTHER -> now - unavailableSince' >= GracePolls

\* The counters of the day before this interval is booked.
DayBegun(newDay) == IF newDay \/ ~Started THEN EmptyDay ELSE booked

\* The energy of the interval goes to the priced or the unpriced side; what
\* is charged stands for energy from the grid.
DayBooked(day, moved, seen) ==
    IF moved = "rest" THEN day
    ELSE IF seen = "price" THEN [day EXCEPT ![moved].priced = @ + 1]
                           ELSE [day EXCEPT ![moved].unpriced = @ + 1]

StatusPoll ==
    /\ polls < LastPoll
    /\ polls' = polls + 1
    /\ \E seen \in Outcomes, moved \in Sides \cup {"rest"}, newDay \in BOOLEAN :
         LET starts == Started \/ seen # "off"
             day == IF starts THEN DayBooked(DayBegun(newDay), moved, seen)
                              ELSE NoAmount
         IN /\ Availability(seen, polls')
            /\ booked' = day
            /\ status' = StatusOf(seen, priceUnavailable', day)
            /\ outcome' = seen
            /\ lastPriced' = IF seen \in {"off", "price"} THEN polls'
                                                         ELSE lastPriced
            /\ missingSince' = IF seen # "missing" THEN NoAmount
                               ELSE IF missingSince = NoAmount THEN polls'
                                                               ELSE missingSince
    /\ UNCHANGED <<originKnown, diskError>>

\* The energy counters become available, a write of the balance fails or
\* works again: the next poll reports it.
OriginAppears ==
    /\ ~originKnown /\ originKnown' = TRUE
    /\ UNCHANGED <<polls, unavailableSince, priceUnavailable, quoteAvailable,
                   lastQuote, booked, diskError, status,
                   outcome, lastPriced, missingSince>>

DiskVerdict ==
    /\ polls < LastPoll
    /\ diskError' = ~diskError
    /\ UNCHANGED <<polls, unavailableSince, priceUnavailable, quoteAvailable,
                   lastQuote, booked, originKnown, status,
                   outcome, lastPriced, missingSince>>

StatusEnded == polls = LastPoll /\ UNCHANGED statusVars

StatusNext == StatusPoll \/ OriginAppears \/ DiskVerdict \/ StatusEnded

StatusSpec == StatusInit /\ [][StatusNext]_statusVars

-----------------------------------------------------------------------------
\* Type correctness; nothing waits for a price that is there.
StatusTypeOK ==
    /\ polls \in 0..LastPoll
    /\ unavailableSince \in 1..LastPoll \cup {NoAmount}
    /\ priceUnavailable \in BOOLEAN /\ quoteAvailable \in BOOLEAN
    /\ lastQuote \in 1..LastPoll \cup {NoAmount}
    /\ booked \in [Sides -> [priced : 0..LastPoll, unpriced : 0..LastPoll]]
                  \cup {NoAmount}
    /\ originKnown \in BOOLEAN /\ diskError \in BOOLEAN
    /\ status \in Statuses /\ outcome \in Outcomes
    /\ quoteAvailable => unavailableSince = NoAmount /\ ~priceUnavailable

\* A complete tariff is reported without a price only when none was quoted
\* for the whole period of grace, pauses of the tariff not counted.
GraceIsGranted ==
    status = "price_unavailable" /\ outcome = "missing"
        => polls - lastPriced > GracePolls

\* And it is reported when an unbroken run has lasted as long as that.
GraceEnds ==
    /\ outcome = "missing"
    /\ polls - missingSince >= GracePolls
    => status \in {"storage_error", "price_unavailable"}

\* The grace for a missing price is neither cut short nor extended.
GraceIsExact == GraceIsGranted /\ GraceEnds
===============================================================================
