------------------------ MODULE MCServiceSupervisor ------------------------
(* Small instances of chrono-init for TLC. *)
EXTENDS ServiceSupervisor

\* A services.conf with a comment, a supervised service, a line with a field
\* missing, an over-long name, and a second service with a negative budget.
ConfLines == <<
  [skip |-> TRUE,  fields |-> 4, fits |-> TRUE,  policy |-> OnFailure, max |-> 3],
  [skip |-> FALSE, fields |-> 4, fits |-> TRUE,  policy |-> OnFailure, max |-> 2],
  [skip |-> FALSE, fields |-> 3, fits |-> TRUE,  policy |-> OnFailure, max |-> 3],
  [skip |-> FALSE, fields |-> 4, fits |-> FALSE, policy |-> OnFailure, max |-> 3],
  [skip |-> FALSE, fields |-> 4, fits |-> TRUE,  policy |-> OnFailure, max |-> -1]
>>
MCRegistry == service_registry_load(ConfLines, CHRONO_MAX_SERVICES)

\* One supervised service, the shape of the repository's own services.conf.
OneService == << ConfLines[2] >>
MCOneService == service_registry_load(OneService, CHRONO_MAX_SERVICES)
=============================================================================
