------------------------ MODULE MCNotificationDelivery ------------------------
(* Values of the constants of NotificationDelivery for TLC. *)
EXTENDS NotificationDelivery

CONSTANTS i1, slack, pagerduty, jira, w1, w2

MCIncidents == {i1}
MCChats == {slack}
MCPagers == {pagerduty}
NoPagers == {}
MCTickets == {jira}
MCWorkers == {w1, w2}

On == [enabled |-> TRUE, quiet |-> FALSE]
Off == [On EXCEPT !.enabled = FALSE]
Quiet == [On EXCEPT !.quiet = TRUE]

\* Every channel may be switched off; the chat may have quiet hours.
MCSettings == [c \in Channels |->
                CASE c \in MCChats -> {On, Quiet, Off}
                  [] c \in MCPagers -> {On, Off}
                  [] OTHER -> {On}]
===============================================================================
