----------------------------- MODULE MCRateLimit -----------------------------
(* RateLimit for TLC: two requests per run of the program, two runs.        *)
EXTENDS RateLimit

CONSTANTS c1, c2

MCCallers == {c1, c2}

Cooldown(kind, retryAt, attempts, updatedAt) ==
  [kind |-> kind, retryAt |-> retryAt, attempts |-> attempts, updatedAt |-> updatedAt]

\* Nothing, garbage, the files loadState removes, a cooldown to wait for, and
\* one whose RetryAt lies before its UpdatedAt.
MCFirstFiles ==
  {Without("missing"), Without("unreadable"), Without("foreign"), Without("cleared"),
   Holding(Cooldown("secondary", 2, 1, 0)), Holding(Cooldown("primary", 0, 1, 1))}

Plain(status) == [status |-> status, exhausted |-> FALSE, throttled |-> FALSE,
                  graphql |-> FALSE, after |-> Absent, reset |-> Absent]

\* Two responses that are no limit, and the limits inspect tells apart.
MCReplies ==
  {Plain("success"), Plain("forbidden"),
   [Plain("forbidden") EXCEPT !.after = 0],
   [Plain("forbidden") EXCEPT !.throttled = TRUE],
   [Plain("forbidden") EXCEPT !.exhausted = TRUE, !.reset = 0],
   [Plain("success") EXCEPT !.graphql = TRUE, !.exhausted = TRUE, !.reset = 2],
   [Plain("toomany") EXCEPT !.after = Unreadable],
   [Plain("toomany") EXCEPT !.exhausted = TRUE, !.after = 2]}

=============================================================================
