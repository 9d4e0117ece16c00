------------------------ MODULE MCAlertmanagerClient ------------------------
(* Three alerts: the one asked for, and one that differs in each label. *)
EXTENDS AlertmanagerClient

CONSTANTS both, otherNamespace, otherName

MCAlerts == {both, otherNamespace, otherName}
MCAlertname == {both, otherNamespace}
MCNamespace == {both, otherName}
=============================================================================
