------------------------------- MODULE MCProxy -------------------------------
EXTENDS Proxy
CONSTANT c1

Crm == [id |-> "crm", command |-> TRUE, url |-> FALSE, stdioOnly |-> TRUE]
Bq  == [id |-> "bq", command |-> FALSE, url |-> TRUE, stdioOnly |-> FALSE]
List(backends) == [kind |-> "list", list |-> backends]
NoSource == [kind |-> "unset", list |-> <<>>]

Typical ==
  [failMode |-> "unset", redact |-> "unset", audience |-> "valid",
   decideTimeout |-> "unset", backendTimeout |-> "positive",
   file |-> List(<<Crm, Bq>>), inline |-> NoSource]

\* Every mode, with each way to get it, and one environment for each error.
MCSettings ==
  {[Typical EXCEPT !.failMode = f, !.redact = r] :
     f \in {"open", "typo"}, r \in {"unset", "on_obligation", "off"}}
  \cup {[Typical EXCEPT !.redact = "typo"], [Typical EXCEPT !.audience = "malformed"],
        [Typical EXCEPT !.decideTimeout = "bad"], [Typical EXCEPT !.file = NoSource],
        [Typical EXCEPT !.redact = "on_obligation", !.audience = "unset"],
        [Typical EXCEPT !.file = [kind |-> "bad", list |-> <<>>], !.inline = List(<<Crm>>)]}
  \cup {[Typical EXCEPT !.file = List(backends)] :
          backends \in {<<>>, <<Crm, Bq, Crm>>, <<[Crm EXCEPT !.id = ""]>>,
                        <<[Crm EXCEPT !.url = TRUE]>>, <<Bq, [Bq EXCEPT !.stdioOnly = TRUE]>>,
                        <<[Bq EXCEPT !.url = FALSE]>>}}
=============================================================================
