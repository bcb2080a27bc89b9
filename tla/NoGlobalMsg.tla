----------------------------- MODULE NoGlobalMsg -----------------------------
(***************************************************************************)
(* third/noglobalmsg.c: the override of PRIVMSG that refuses a message     *)
(* with any $mask target and hands every other one to the original         *)
(* handler.  A string is a sequence of characters from a small alphabet;   *)
(* each received PRIVMSG is one step, its outcome recorded in the state.   *)
(***************************************************************************)
EXTENDS Integers, Sequences, SequencesExt

CONSTANTS
    Char,       \* characters a target string is made of, "," and "$" among them
    MaxLen,     \* longest target string received
    BUFSIZE     \* size of the targets[] buffer

ASSUME {",", "$"} \subseteq Char /\ MaxLen \in Nat /\ BUFSIZE \in Nat \ {0}

VARIABLES
    msg,        \* the last PRIVMSG received: parc, parv[1], parv[2]
    outcome     \* what override_privmsg did with it

vars == <<msg, outcome>>

\* The messages the parser can hand over: parv[1] is set when parc >= 2,
\* parv[2] (the text, empty or not) when parc >= 3.
Strings == UNION {[1..n -> Char] : n \in 0..MaxLen}
Message == [parc : {1}, target : {<<>>}, text : {""}]
             \cup [parc : {2}, target : Strings, text : {""}]
             \cup [parc : {3}, target : Strings, text : {"", "x"}]
\* BadPtr(parv[2]): the text is missing (parc < 3) or empty.
BadPtr(m) == m.parc < 3 \/ m.text = ""

\* strlcpy into targets[BUFSIZE]: at most BUFSIZE - 1 characters are kept.
strlcpy(s) == SubSeq(s, 1, IF Len(s) < BUFSIZE THEN Len(s) ELSE BUFSIZE - 1)

\* The targetstr values of the strtoken(&p, ..., ",") loop: the non-empty
\* runs between commas, left to right (strtoken skips leading separators).
RECURSIVE strtoken(_)
strtoken(s) ==
    IF s = <<>> THEN <<>>
    ELSE IF Head(s) = "," THEN strtoken(Tail(s))
    ELSE LET j == SelectInSeq(s, LAMBDA ch : ch = ",")
         IN  IF j = 0 THEN <<s>>
             ELSE <<SubSeq(s, 1, j - 1)>> \o strtoken(SubSeq(s, j + 1, Len(s)))

\* Faulty variant: the loop gives up after the first target.
FirstTargetOnly(toks) == SubSeq(toks, 1, IF toks = <<>> THEN 0 ELSE 1)

\* The targets the for loop looks at before it ends or returns.
Scanned(toks) == toks

\* override_privmsg: the early return, then ERR_YOUREBANNEDCREEP and a
\* return at the first target starting with '$', else CallCommandOverride.
override_privmsg(m) ==
    LET toks == Scanned(strtoken(strlcpy(m.target)))
    IN  IF BadPtr(m) THEN "ignored"
        ELSE IF \E i \in 1..Len(toks) : Head(toks[i]) = "$" THEN "rejected"
        ELSE "passed"

Init == msg = <<>> /\ outcome = "none"

Receive == \E m \in Message : msg' = m /\ outcome' = override_privmsg(m)

Spec == Init /\ [][Receive]_vars

-----------------------------------------------------------------------------
(* Properties                                                              *)

\* A $mask target: a character '$' at the start of the list or right
\* after a comma, whatever the tokeniser does.
HasGlobalTarget(s) == \E i \in 1..Len(s) : s[i] = "$" /\ (i = 1 \/ s[i - 1] = ",")

\* Module header "Disables PRIVMSG $*": a complete PRIVMSG is refused
\* exactly when one of its comma-separated targets starts with '$', in
\* any position of the list; all others reach the original handler.
RejectsExactlyGlobal ==
    msg # <<>> /\ ~BadPtr(msg) =>
        (outcome = "rejected" <=> HasGlobalTarget(msg.target))

\* Only PRIVMSG $* is disabled: every message without a $mask target is
\* handed to the original handler, which answers an incomplete one with
\* ERR_NEEDMOREPARAMS or ERR_NOTEXTTOSEND.
NonGlobalReachesHandler ==
    msg # <<>> /\ ~HasGlobalTarget(msg.target) => outcome = "passed"

=============================================================================
