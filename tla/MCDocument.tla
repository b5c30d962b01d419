----------------------------- MODULE MCDocument -----------------------------
EXTENDS Document

CONSTANTS Empty, Neat, Loose

\* A cleanup that changes one of the texts.
Trim == [t \in {Empty, Neat, Loose} |-> IF t = Loose THEN Neat ELSE t]

Allow(edits, undos, saves, formats, others) ==
    [edits |-> edits, undos |-> undos, saves |-> saves, formats |-> formats,
     others |-> others]

\* Histories; saves against other programs; parked saves; all of it, less often.
Scenarios == {
    Allow(3, 2, 1, 0, 0),
    Allow(1, 1, 2, 0, 2),
    Allow(2, 0, 0, 2, 1),
    Allow(2, 1, 1, 1, 1)}
=============================================================================
