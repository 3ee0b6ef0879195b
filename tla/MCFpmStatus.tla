------------------------------ MODULE MCFpmStatus ------------------------------
EXTENDS FpmStatus
\* The record is copied in two parts, with the cut in the middle of the
\* activity; FpmStatusProofs covers every other way to copy it.
StatusWords == << {"idle", "active"},
                  {"total", "accepted_conn", "max_children_reached"} >>
=============================================================================
