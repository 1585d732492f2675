--------------------------- MODULE TextualFraming ---------------------------
(***************************************************************************)
(* The textual dialog (textual_dialog.rs): each message ends in '\n', and  *)
(* lines are looked for in all that was read and not yet relayed.          *)
(***************************************************************************)
EXTENDS Wire

EOL == 0

TextInit == reader = [step |-> "select", buffer |-> <<>>, next_line_index |-> 0,
                      this_line_search_start |-> 0]

TextSend == \E m \in Payloads : EOL \notin Range(m) /\ Writes(m, m \o <<EOL>>)

\* read_buf() appends to the buffer, that grows as needed
TextRead ==
    /\ reader.step = "select"
    /\ \E bytes \in Pieces(Len(wire)) :
        Reads(bytes, [step |-> "lines", buffer |-> reader.buffer \o bytes,
                      next_line_index |-> 0, this_line_search_start |-> Len(reader.buffer)])
    /\ UNCHANGED got

\* Indexes are those of the program, where the first byte is at 0
Eols == {i \in DOMAIN reader.buffer :
            i > reader.next_line_index + reader.this_line_search_start /\ reader.buffer[i] = EOL}
Rest(from) == SubSeq(reader.buffer, from + 1, Len(reader.buffer))

\* Mutant: the search goes on as far from the next line as it began from the first one
LineSearchNotReset ==
    /\ reader.step = "lines" /\ Eols # {}
    /\ LET eol == Min(Eols)
       IN  /\ Relays(SubSeq(reader.buffer, reader.next_line_index + 1, eol - 1))
           /\ Turns(IF eol >= Len(reader.buffer)
                    THEN [reader EXCEPT !.step = "select", !.buffer = <<>>]
                    ELSE [reader EXCEPT !.next_line_index = eol])

TextLine ==
    /\ reader.step = "lines" /\ Eols # {}
    /\ LET eol == Min(Eols)
       IN  /\ Relays(SubSeq(reader.buffer, reader.next_line_index + 1, eol - 1))
           /\ Turns(IF eol >= Len(reader.buffer)
                    THEN [reader EXCEPT !.step = "select", !.buffer = <<>>]
                    ELSE [reader EXCEPT !.next_line_index = eol,
                                        !.this_line_search_start = 0])

\* Mutant: the lines already relayed stay in the buffer
TextRestKept ==
    /\ reader.step = "lines" /\ Eols = {}
    /\ Turns([reader EXCEPT !.step = "select"])
    /\ UNCHANGED got

TextRest ==
    /\ reader.step = "lines" /\ Eols = {}
    /\ Turns([reader EXCEPT !.step = "select", !.buffer = Rest(reader.next_line_index)])
    /\ UNCHANGED got

TextEnd ==
    /\ reader.step = "select"
    /\ Turns(Ended) /\ UNCHANGED got

TextNext == TextSend \/ TextRead \/ TextLine \/ TextRest \/ TextEnd
=============================================================================
