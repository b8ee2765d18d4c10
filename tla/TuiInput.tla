-------------------------------- MODULE TuiInput --------------------------------
(***************************************************************************)
(* StreamInputSource: bytes of key presses arrive on a stream and Poll     *)
(* cuts one key off the front. A key's bytes usually arrive together; a    *)
(* slow line may deliver the first of them before the rest.                *)
(***************************************************************************)
EXTENDS Integers, Sequences, SequencesExt

CONSTANTS
    Keys, BytesOf,      \* the keys pressed and the bytes a terminal sends
    Unsupported,        \* keys ParseEscapedInput has no event for
    Esc, Bracket,       \* the bytes that begin an escape sequence
    Letters, Tilde,     \* the bytes that end one
    Modes, MaxKeys

VARIABLES
    stream,     \* bytes that arrived and were not consumed
    coming,     \* the rest of a key whose first byte arrived alone
    mode, consumed,
    pressed,    \* keys pressed so far
    apart       \* some key's bytes arrived in two parts

inputVars == <<stream, coming, mode, consumed, pressed, apart>>

CsiLimit == 16

\* A mutant of EndsSequence: letters do not end a sequence.
EndsAtTilde(byte) == byte = Tilde

EndsSequence(byte) == byte \in Letters \cup {Tilde}

\* Bytes of the first key: a byte, an escape with one more, or an escape
\* sequence up to its last byte or as far as it arrived (TryPollStream).
FirstKey(bytes) ==
    IF bytes[1] # Esc \/ Len(bytes) = 1 THEN SubSeq(bytes, 1, 1)
    ELSE IF bytes[2] # Bracket THEN SubSeq(bytes, 1, 2)
    ELSE LET ends == {i \in 3..Len(bytes) : EndsSequence(bytes[i])} \cup {Len(bytes), 2 + CsiLimit}
         IN  SubSeq(bytes, 1, CHOOSE i \in ends : \A j \in ends : i <= j)

\* ParseEscapedInput: the key of these bytes, or an error.
Event(raw) ==
    LET keys == {k \in Keys \ Unsupported : BytesOf[k] = raw}
    IN  IF raw = <<Esc>> THEN "escape" ELSE IF keys = {} THEN "error" ELSE CHOOSE k \in keys : TRUE

Press ==
    /\ Len(pressed) < MaxKeys /\ coming = <<>>
    /\ \E k \in Keys : stream' = stream \o BytesOf[k] /\ pressed' = Append(pressed, k)
    /\ UNCHANGED <<coming, mode, consumed, apart>>

PressApart ==
    /\ Len(pressed) < MaxKeys /\ coming = <<>>
    /\ \E k \in {j \in Keys : Len(BytesOf[j]) > 1} :
          /\ stream' = Append(stream, BytesOf[k][1]) /\ coming' = Tail(BytesOf[k])
          /\ pressed' = Append(pressed, k)
    /\ apart' = TRUE
    /\ UNCHANGED <<mode, consumed>>

RestArrives ==
    /\ coming # <<>>
    /\ stream' = stream \o coming /\ coming' = <<>>
    /\ UNCHANGED <<mode, consumed, pressed, apart>>

\* Poll consumes the key; PeekOnly rewinds an event, but not an error.
Poll ==
    /\ stream # <<>>
    /\ LET raw == FirstKey(stream) IN
          /\ mode = "PeekOnly" => Event(raw) = "error"
          /\ stream' = SubSeq(stream, Len(raw) + 1, Len(stream))
          /\ consumed' = Append(consumed, raw)
    /\ UNCHANGED <<coming, mode, pressed, apart>>

SetConsumeMode ==
    /\ \E m \in Modes \ {mode} : mode' = m
    /\ UNCHANGED <<stream, coming, consumed, pressed, apart>>

Init ==
    /\ stream = <<>> /\ coming = <<>> /\ mode \in Modes
    /\ consumed = <<>> /\ pressed = <<>> /\ apart = FALSE

Next == Press \/ PressApart \/ RestArrives \/ Poll \/ SetConsumeMode
Spec == Init /\ [][Next]_inputVars

--------------------------------------------------------------------------------
Report(k) == IF k \in Unsupported THEN "error" ELSE k
Bytes(keys) == FlattenSeq([i \in DOMAIN keys |-> BytesOf[keys[i]]])

\* What Poll reports are the keys pressed, in order, none merged and none cut
\* in two, when each key's bytes arrive together; and no byte is lost or read
\* twice in any case (TryPollStream, ParseEscapedInput, PeekOnly's rewind).
KeysInOrder ==
    /\ FlattenSeq(consumed) \o stream \o coming = Bytes(pressed)
    /\ ~apart => \A i \in DOMAIN consumed : Event(consumed[i]) = Report(pressed[i])
================================================================================
