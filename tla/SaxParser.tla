------------------------------ MODULE SaxParser ------------------------------
(***************************************************************************)
(* The SAX parser over which both payload parsers are written: libxml2,    *)
(* which reads the document element by element and calls back, and the     *)
(* C++ wrapper around it, which must not let an exception of a callback    *)
(* pass through C code: it keeps the exception, stops libxml2 and throws   *)
(* again when xmlParseDocument has returned.                               *)
(*                                                                         *)
(* A document is the sequence of its start and end tags.  An attribute is  *)
(* missing, or has a value; a value that is read as a number is that       *)
(* number, text if it does not begin with one, huge if it is out of range. *)
(***************************************************************************)
EXTENDS Integers, Sequences, SequencesExt

CONSTANTS
    Attributes(_),  \* the attributes with which an element of a given name may come
    Names,          \* names of elements
    missing,        \* an attribute that is not there
    text, huge,     \* values that are not numbers
    MaxElements     \* bound on the number of elements of a document

VARIABLES
    open,       \* the elements of the document that are open, outermost first;
                \* of those at depths at which they matter to no reader, only the place
    elements,   \* elements begun so far
    exception,  \* Parser::exception_, "none" if there is none
    stopped,    \* xmlStopParser was called
    xml_error,  \* libxml2 has found the document not to be well-formed
    outcome,    \* of process_message
    first       \* history: what was thrown or found first, "none" if nothing was

saxVars == <<open, elements, exception, stopped, xml_error, outcome, first>>

bad_request == "400 bad_request"
precondition_failed == "412 precondition_failed"

SaxInit ==
    /\ open = <<>>
    /\ elements = 0
    /\ exception = "none"
    /\ stopped = FALSE
    /\ xml_error = FALSE
    /\ outcome = "parsing"
    /\ first = "none"

\* libxml2 calls back as long as it has not been stopped and the document is
\* well-formed so far.
Parsing == outcome = "parsing" /\ ~stopped /\ ~xml_error

\* The next tag of the document opens an element (there is only one root),
\* or closes the one that was opened last.
Opened(name, attrs) ==
    IF Len(open) = 1 THEN [name |-> name, attrs |-> attrs] ELSE [name |-> "any"]

start_tag(name, attrs) ==
    /\ Parsing
    /\ elements < MaxElements
    /\ elements = 0 \/ open # <<>>
    /\ elements' = elements + 1
    /\ open' = Append(open, Opened(name, attrs))
    /\ UNCHANGED <<xml_error, outcome>>

end_tag ==
    /\ Parsing
    /\ open # <<>>
    /\ open' = Front(open)
    /\ UNCHANGED <<elements, xml_error, outcome>>

\* handle_exception: what a callback has thrown is kept, in place of what was
\* kept before, and libxml2 is stopped.
no_exception == UNCHANGED <<exception, stopped, first>>
Seen(e) == first' = IF first = "none" THEN e ELSE first

\* Mutants: the exception is swallowed; libxml2 is not stopped.
handle_exception_mutant(e) == no_exception
handle_exception_goes_on_mutant(e) == exception' = e /\ UNCHANGED stopped /\ Seen(e)
handle_exception(e) == exception' = e /\ stopped' = TRUE /\ Seen(e)

\* Anything that is not well-formed: a missing end tag, the end of the input,
\* content after the root element.
not_well_formed ==
    /\ Parsing
    /\ xml_error' = TRUE
    /\ Seen(bad_request)
    /\ UNCHANGED <<open, elements, exception, stopped, outcome>>

\* SaxParser::parse, after xmlParseDocument, which fails when it was stopped:
\* check_for_exception comes first, and an error of libxml2 becomes a bad
\* request in process_message.
Raised == IF exception # "none" THEN exception ELSE bad_request

parse_ends ==
    /\ outcome = "parsing"
    /\ \/ stopped
       \/ xml_error
       \/ open = <<>> /\ elements > 0
    /\ outcome' = IF exception # "none" \/ stopped \/ xml_error THEN Raised ELSE "ok"
    /\ UNCHANGED <<open, elements, exception, stopped, xml_error, first>>

\* std::from_chars, which reads the longest prefix that is a number.
from_chars(v) == v
IsNumber(v) == v \in Int

=============================================================================
