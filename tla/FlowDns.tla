------------------------------ MODULE FlowDns ------------------------------
(* The DNS proxy (x/handler/dns). *)
EXTENDS Control

\* x/handler/dns/metadata.go:28-64 parseMetadata
DnsMetadata == Return

\* Name servers that cannot be used are left out.
\* x/handler/dns/handler.go:63-128 Init
DnsInit ==
    Call("DnsMetadata")
    \o While("node", When("address", Do("test", "exchanger")))
    \o When("none", Check("default exchanger"))

\* A query that cannot be resolved is not answered.
\* x/handler/dns/handler.go:135-213 Handle
DnsHandle ==
    DeferClose("conn") \o Rate \o Read
    \o Or("call", "DnsRequest", Silent \o Fail) \o Try("reply", "") \o Return

\* The answer of a bypassed name is empty.  A stale answer goes out while its
\* refresh is under way.
\* x/handler/dns/handler.go:227-324 request
DnsRequest ==
    Check("message") \o Check("question")
    \o Or("bypass", "", Check("pack") \o Return)
    \o Invoke("DnsLookupHosts")
    \o When("hosts", Check("pack") \o Return)
    \o When("cached and fresh", Check("pack") \o Return)
    \o Call("DnsSelectExchanger")
    \o When("cached and async", Check("pack") \o Do("test", "refresh time") \o Go("DnsExchange") \o Return)
    \o Call("DnsExchange")
    \o Check("pack") \o Return

\* x/handler/dns/handler.go:326-350 exchange
DnsExchange ==
    Check("pack") \o Dial("cc") \o Close("cc") \o Check("unpack")
    \o When("single question", Do("test", "store")) \o Return

\* x/handler/dns/handler.go:353-400 lookupHosts
DnsLookupHosts ==
    When("no hosts or not an address query", Fail)
    \o Check("addresses")
    \o While("address", Check("record")) \o Return

\* The default exchanger of Init has a name no node has.
\* x/handler/dns/handler.go:402-412 selectExchanger
DnsSelectExchanger == Check("hop") \o Check("node") \o Check("exchanger") \o Return

DnsPrograms == [
    DnsMetadata |-> DnsMetadata, DnsInit |-> DnsInit, DnsHandle |-> DnsHandle,
    DnsRequest |-> DnsRequest, DnsExchange |-> DnsExchange, DnsLookupHosts |-> DnsLookupHosts,
    DnsSelectExchanger |-> DnsSelectExchanger]
=============================================================================
