--------------------------- MODULE MCNodeExecution ---------------------------
EXTENDS NodeExecution

PlainNode(kind, allow) == [kind |-> kind, allow |-> allow, schema |-> "none", repairs |-> 0]
SchemaNode(schema, n) == [kind |-> "LLM", allow |-> {}, schema |-> schema, repairs |-> n]

(* Two agents, the LLM executors, every tool with the class of its own,    *)
(* and one that declares another class.                                    *)
MCNodes ==
    {PlainNode("AgentLoop", {"s3"}), PlainNode("AgentLoop", {"iam", "relay"})}
    \cup {SchemaNode("none", 0), SchemaNode("strict", 1), SchemaNode("lenient", 1)}
    \cup {PlainNode(t.tool, {t.class}) : t \in ToolTable}
    \cup {PlainNode("XWSDmsIntrospect", {"dms-ro"}), PlainNode("XWSAudit", {"s3"})}

MCChains == {<<>>, <<"hint", "project", "hint">>}
=============================================================================
