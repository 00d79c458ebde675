---------------------------- MODULE MCCommandGate ----------------------------
(* Instances of CommandGate for TLC. *)
EXTENDS CommandGate

CONSTANTS c1, c2, p1, p2

Plain(route) == [route |-> route, host |-> "loopback", session |-> "valid", body |-> "object"]

\* One command per process, so that both processes append.
TwoHomes == [c \in {c1, c2} |-> IF c = c1 THEN p1 ELSE p2]

\* Both commands in one process.
OneHome == [c \in {c1, c2} |-> p1]

\* One request for every way through do_POST.
GateRequests ==
  { Plain("simulate"), Plain("demo/reset"), Plain("gateway/import"),
    Plain("license/reload"), Plain("unlisted"),
    [Plain("simulate") EXCEPT !.host = "foreign"],
    [Plain("simulate") EXCEPT !.host = "malformed"],
    [Plain("simulate") EXCEPT !.session = "wrong"],
    [Plain("simulate") EXCEPT !.session = "garbled"],
    [Plain("simulate") EXCEPT !.body = "invalid"],
    [Plain("simulate") EXCEPT !.body = "too_large"],
    [Plain("simulate") EXCEPT !.body = "broken"] }

PlainRequests == { Plain("simulate"), Plain("license/reload") }

NoEnvelope == [form |-> "absent", entitlements |-> {}, from |-> 0, until |-> 0]

\* Signed without the evidence gateway: valid at time 0, expired at time 1.
ShortEnvelope ==
  [form |-> "signed", from |-> 0, until |-> 1,
   entitlements |-> {"desktop_control_plane", "local_audit"}]

MalformedEnvelope == [NoEnvelope EXCEPT !.form = "malformed"]

NoEnvelopes == {NoEnvelope}
TwoEnvelopes == {MalformedEnvelope, ShortEnvelope}
ShortOnly == {ShortEnvelope}

==============================================================================
