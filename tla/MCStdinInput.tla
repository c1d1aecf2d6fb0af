---------------------------- MODULE MCStdinInput ----------------------------
(***************************************************************************)
(* Small programs for StdinInput, shaped like those of Tea.elm, and what is *)
(* typed at them.                                                          *)
(***************************************************************************)
EXTENDS StdinInput

\* An input event re-arms a reader of its kind, the end does not.  The key
\* "b" is answered with a pause before the next key is read.
Rearm(ev) ==
    IF ev.kind \notin Kind \/ ev.name = "eof" THEN <<>>
    ELSE IF ev = Key("b") THEN <<"late">> ELSE <<ev.kind>>

Typing(start, arrival, hangs_up, scripts) ==
    {[start |-> start, script |-> s, arrival |-> arrival, hangs_up |-> hangs_up] : s \in scripts}

KeyReader   == <<"key">>
BothReaders == <<"key", "mouse">>

\* One reader and any timing, or two readers and whole events.
OrderlySessions ==
    Typing(KeyReader, "any", TRUE,
        {<<Key("a"), Key("up"), Key("esc"), Key("a")>>,
         <<Key("esc"), Key("up"), Key("utf8"), Key("a")>>})
    \cup Typing(BothReaders, "calm", FALSE,
        {<<Key("a"), Mouse("m1"), Mouse("m2"), Key("up"), Key("b")>>,
         <<Mouse("m1"), Key("b"), Key("a"), Mouse("m2"), Key("utf8")>>})

\* Both readers, a sleep, and any timing.
FreeSessions ==
    Typing(<<"tick", "key", "mouse">>, "any", TRUE,
        {<<Mouse("m1"), Key("b"), Key("up")>>,
         <<Key("b"), Key("esc"), Mouse("m2")>>})

PipedSessions == Typing(BothReaders, "piped", TRUE, {<<Key("a"), Key("a")>>})
=============================================================================
