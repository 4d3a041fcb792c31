--------------------------- MODULE CallSignatures ---------------------------
(***************************************************************************)
(* The signatures of the calls into the flow-table enclave in the HOTCALL  *)
(* builds, as each side has them: Wrapper, the arguments that the SGX_     *)
(* wrapper of untrusted/app.c stores and the result it returns; Cases,     *)
(* what execute_function (trusted/call-table.c) reads and stores.          *)
(***************************************************************************)
EXTENDS Integers, Sequences, TLC

(* A type as the wrapper stores it: bytes of storage, and the bytes that   *)
(* its values need.  There are at most 255 tables.  The wrappers whose     *)
(* size_t result is a number of rules are called for an int (count).       *)
Types ==
    [u8 |-> <<1, 1>>, bool |-> <<1, 1>>, u16 |-> <<2, 2>>, int |-> <<4, 4>>, uint |-> <<4, 4>>,
     u32 |-> <<4, 4>>, flags |-> <<4, 4>>, size |-> <<8, 8>>, ptr |-> <<8, 8>>, node |-> <<16, 16>>,
     tables |-> <<4, 1>>, count |-> <<8, 4>>, void |-> <<0, 0>>]

Sync(params, ret) == [async |-> FALSE, params |-> params, ret |-> ret]
Async(params) == [async |-> TRUE, params |-> params, ret |-> "void"]

-----------------------------------------------------------------------------
(* The wrappers, in the order of app.c.                                    *)
TableWrappers ==
    [ecall_oftable_set_readonly |-> Async(<<"u8", "u8">>),
     ecall_oftable_is_readonly |-> Sync(<<"u8", "u8">>, "int"),
     ecall_cls_rule_init |-> Async(<<"u8", "ptr", "ptr", "uint">>),
     ecall_cr_rule_overlaps |-> Sync(<<"u8", "u8", "ptr">>, "int"),
     ecall_cls_rule_destroy |-> Async(<<"u8", "ptr">>),
     ecall_cls_rule_hash |-> Sync(<<"u8", "ptr", "u32">>, "u32"),
     ecall_cls_rule_equal |-> Sync(<<"u8", "ptr", "ptr">>, "int"),
     ecall_oftable_classifier_replace |-> Sync(<<"u8", "u8", "ptr", "ptr">>, "void")]

EvictionWrappers ==
    [ecall_oftable_get_flags |-> Sync(<<"u8", "u8">>, "flags"),
     ecall_oftable_cls_count |-> Sync(<<"u8", "u8">>, "int"),
     ecall_is_eviction_fields_enabled |-> Sync(<<"u8", "u8">>, "int"),
     ecall_evg_add_rule |-> Async(<<"u8", "u8", "ptr", "u32", "u32", "node">>),
     ecall_evg_remove_rule |-> Async(<<"u8", "u8", "ptr">>),
     ecall_cls_remove |-> Async(<<"u8", "u8", "ptr">>),
     ecall_choose_rule_to_evict |-> Sync(<<"u8", "u8", "ptr">>, "void"),
     ecall_choose_rule_to_evict_p |-> Sync(<<"u8", "u8", "ptr", "ptr">>, "void")]

RuleWrappers ==
    [ecall_oftable_mflows |-> Sync(<<"u8", "u8">>, "uint"),
     ecall_oftable_mflows_set |-> Async(<<"u8", "u8", "uint">>),
     ecall_minimatch_expand |-> Sync(<<"u8", "ptr", "ptr">>, "void"),
     ecall_cr_priority |-> Sync(<<"u8", "ptr">>, "uint"),
     ecall_oftable_cls_find_match_exactly |-> Sync(<<"u8", "u8", "ptr", "uint", "ptr">>, "void"),
     ecall_collect_rules_loose_c |-> Sync(<<"u8", "tables", "u8", "ptr">>, "count"),
     ecall_collect_rules_loose_r |-> Sync(<<"u8", "tables", "ptr", "int", "u8", "ptr">>, "void")]

CollectWrappers ==
    [ecall_collect_rules_strict_c |-> Sync(<<"u8", "tables", "u8", "ptr", "uint">>, "count"),
     ecall_collect_rules_strict_r |->
         Sync(<<"u8", "tables", "ptr", "int", "u8", "ptr", "uint">>, "void"),
     ecall_oftable_enable_eviction_c |-> Sync(<<"u8", "u8">>, "count"),
     ecall_oftable_enable_eviction_r |-> Sync(<<"u8", "ptr", "int", "u8">>, "void"),
     ecall_collect_ofmonitor_util_c |-> Sync(<<"u8", "tables", "u8", "ptr">>, "count"),
     ecall_collect_ofmonitor_util_r |->
         Sync(<<"u8", "tables", "ptr", "int", "u8", "ptr">>, "void"),
     ecall_oftable_enable_eviction |-> Sync(<<"u8", "u8", "ptr", "size", "u32", "ptr">>, "void"),
     ecall_oftable_disable_eviction |-> Async(<<"u8", "u8">>)]

BridgeWrappers ==
    [ecall_ofproto_destroy |-> Async(<<"u8">>),
     ecall_total_rules |-> Sync(<<"u8">>, "uint"),
     ecall_oftable_name |-> Sync(<<"u8", "u8", "ptr", "size">>, "void"),
     ecall_cls_rule_is_loose_match |-> Sync(<<"u8", "ptr", "ptr">>, "int"),
     ecall_flush_c |-> Sync(<<"u8">>, "count"),
     ecall_flush_r |-> Sync(<<"u8", "ptr", "int">>, "void"),
     ecall_flow_stats_c |-> Sync(<<"u8">>, "count"),
     ecall_flow_stats_r |-> Sync(<<"u8", "ptr", "int">>, "void"),
     ecall_oftable_cls_lookup |-> Sync(<<"u8", "ptr", "u8", "ptr", "ptr">>, "void")]

DpifWrappers ==
    [ecall_dpif_destroy_c |-> Sync(<<"u8">>, "count"),
     ecall_dpif_destroy_r |-> Sync(<<"u8", "ptr", "int">>, "void"),
     ecall_cls_rule_format |-> Sync(<<"u8", "ptr", "ptr">>, "uint"),
     ecall_miniflow_expand |-> Sync(<<"u8", "ptr", "ptr">>, "void"),
     ecall_rule_calculate_tag |-> Sync(<<"u8", "ptr", "ptr", "u8">>, "u32"),
     ecall_oftable_update_taggable |-> Sync(<<"u8", "u8">>, "int"),
     ecall_oftable_is_other_table |-> Sync(<<"u8", "u8">>, "int"),
     ecall_rule_calculate_tag_s |-> Sync(<<"u8", "u8", "ptr">>, "u32"),
     ecall_oftable_hidden_check |-> Async(<<"u8">>)]

NameWrappers ==
    [ecall_oftable_set_name |-> Async(<<"u8", "u8", "ptr">>),
     ecall_minimask_get_vid_mask |-> Sync(<<"u8", "ptr">>, "u16"),
     ecall_miniflow_get_vid |-> Sync(<<"u8", "ptr">>, "u16"),
     ecall_ofproto_get_vlan_c |-> Sync(<<"u8">>, "count"),
     ecall_ofproto_get_vlan_r |-> Sync(<<"u8", "ptr", "int">>, "void"),
     (* the wrapper returns nothing although it is declared to *)
     ecall_oftable_get_cls_rules |->
         Sync(<<"u8", "u8", "size", "size", "ptr", "size", "ptr">>, "void")]

MergedEvictionWrappers ==
    [ecall_get_cls_rules_and_enable_eviction |->
         Sync(<<"u8", "u8", "size", "size", "ptr", "size", "ptr", "ptr", "size", "u32", "ptr", "ptr">>,
              "size"),
     ecall_eviction_group_add_rules |->
         Sync(<<"u8", "u8", "size", "ptr", "ptr", "ptr", "u32">>, "void"),
     ecall_ofproto_get_vlan_usage |-> Sync(<<"u8", "size", "ptr", "size", "size", "ptr">>, "size")]

MergedFlowWrappers ==
    [ecall_ofproto_flush |-> Sync(<<"u8", "ptr", "ptr", "size", "size", "size", "ptr">>, "size"),
     ecall_ofproto_evict |-> Sync(<<"u8", "tables", "size", "ptr", "ptr", "size", "ptr">>, "size"),
     ecall_add_flow |->
         Sync(<<"u8", "u8", "ptr", "ptr", "ptr", "ptr", "ptr", "ptr", "ptr", "uint", "u16", "u32", "u32",
                "node", "ptr", "int", "bool", "ptr", "ptr", "ptr", "ptr", "ptr">>, "void")]

MergedCollectWrappers ==
    [ecall_collect_rules_strict |->
         Sync(<<"u8", "u8", "int", "ptr", "uint", "ptr", "ptr", "ptr", "size">>, "size"),
     ecall_collect_rules_loose |->
         Sync(<<"u8", "u8", "int", "size", "ptr", "ptr", "ptr", "size", "ptr", "ptr">>, "size"),
     ecall_delete_flows |-> Sync(<<"u8", "ptr", "ptr", "ptr", "ptr", "ptr", "ptr", "size">>, "void")]

MergedTableWrappers ==
    [ecall_oftable_configure |-> Sync(<<"u8", "u8", "ptr", "uint", "ptr", "size", "ptr", "ptr">>, "void"),
     ecall_need_to_evict |-> Sync(<<"u8", "u8">>, "bool"),
     ecall_collect_rules_loose_stats_request |->
         Sync(<<"u8", "u8", "int", "size", "size", "ptr", "ptr", "ptr", "ptr", "ptr">>, "size"),
     ecall_ofproto_rule_send_removed |-> Sync(<<"u8", "ptr", "ptr", "ptr", "ptr">>, "void")]

MergedRuleWrappers ==
    [ecall_oftable_remove_rules |-> Sync(<<"u8", "ptr", "ptr", "ptr", "size">>, "void"),
     ecall_cls_rules_format |-> Sync(<<"u8", "ptr", "ptr", "size">>, "void"),
     ecall_minimatch_expand_and_get_priority |-> Sync(<<"u8", "ptr", "ptr", "ptr">>, "void"),
     ecall_miniflow_expand_and_tag |-> Sync(<<"u8", "ptr", "ptr", "u8">>, "u32")]

Wrapper ==
    TableWrappers @@ EvictionWrappers @@ RuleWrappers @@ CollectWrappers @@ BridgeWrappers
    @@ DpifWrappers @@ NameWrappers @@ MergedEvictionWrappers @@ MergedFlowWrappers
    @@ MergedCollectWrappers @@ MergedTableWrappers @@ MergedRuleWrappers

AllCalls == DOMAIN Wrapper

-----------------------------------------------------------------------------
(* The cases of execute_function, in the order of call-table.c.  Each read *)
(* gives the bytes that are read and the bytes of the ecall's parameter;   *)
(* stored is the width of the result that is stored.                       *)
B1 == <<1, 1>>
B2 == <<2, 2>>
B4 == <<4, 4>>
B8 == <<8, 8>>
Node == <<16, 16>>
Ptr == <<8, 8>>
Widened == <<1, 4>>    \* read as uint8_t for an int
Narrowed == <<4, 1>>   \* read as int for a uint8_t

Case(reads, stored) == [reads |-> reads, stored |-> stored]

FirstCases ==
    [ecall_oftable_is_readonly |-> Case(<<B1, B1>>, 4),
     ecall_cls_rule_init |-> Case(<<B1, Ptr, Ptr, B4>>, 0),
     ecall_cls_rule_destroy |-> Case(<<Narrowed, Ptr>>, 0),
     ecall_cr_rule_overlaps |-> Case(<<B1, B1, Ptr>>, 4),
     ecall_oftable_set_readonly |-> Case(<<B1, B1>>, 0),
     ecall_oftable_set_name |-> Case(<<B1, B1, Ptr>>, 0),
     ecall_oftable_disable_eviction |-> Case(<<B1, B1>>, 0),
     ecall_oftable_mflows_set |-> Case(<<B1, B1, B4>>, 0),
     ecall_oftable_cls_count |-> Case(<<B1, B1>>, 4),
     ecall_oftable_mflows |-> Case(<<B1, B1>>, 4),
     ecall_is_eviction_fields_enabled |-> Case(<<B1, B1>>, 4),
     ecall_flush_c |-> Case(<<B1>>, 4),
     ecall_flush_r |-> Case(<<B1, Ptr, B4>>, 0),
     ecall_ofproto_destroy |-> Case(<<B1>>, 0),
     ecall_total_rules |-> Case(<<Narrowed>>, 4),
     ecall_oftable_cls_find_match_exactly |-> Case(<<B1, B1, Ptr, B4, Ptr>>, 0)]

LooseCases ==
    [ecall_cr_priority |-> Case(<<B1, Ptr>>, 4),
     ecall_oftable_get_flags |-> Case(<<B1, B1>>, 4),
     ecall_oftable_name |-> Case(<<B1, B1, Ptr, B8>>, 0),
     ecall_collect_rules_loose_c |-> Case(<<B1, Widened, B1, Ptr>>, 4),
     ecall_collect_rules_loose_r |-> Case(<<B1, Widened, Ptr, B4, B1, Ptr>>, 0),
     ecall_minimatch_expand |-> Case(<<B1, Ptr, Ptr>>, 0),
     ecall_cls_rule_format |-> Case(<<B1, Ptr, Ptr>>, 4),
     ecall_flow_stats_c |-> Case(<<B1>>, 4),
     ecall_flow_stats_r |-> Case(<<B1, Ptr, B4>>, 0),
     ecall_cls_rule_hash |-> Case(<<B1, Ptr, B4>>, 4),
     ecall_cls_rule_equal |-> Case(<<B1, Ptr, Ptr>>, 4),
     ecall_choose_rule_to_evict |-> Case(<<B1, B1, Ptr>>, 0),
     ecall_choose_rule_to_evict_p |-> Case(<<B1, B1, Ptr, Ptr>>, 0),
     ecall_collect_ofmonitor_util_c |-> Case(<<B1, Widened, B1, Ptr>>, 4),
     ecall_collect_ofmonitor_util_r |-> Case(<<B1, Widened, Ptr, B4, B1, Ptr>>, 0),
     ecall_cls_rule_is_loose_match |-> Case(<<B1, Ptr, Ptr>>, 4)]

VlanCases ==
    [ecall_minimask_get_vid_mask |-> Case(<<B1, Ptr>>, 2),
     ecall_miniflow_get_vid |-> Case(<<B1, Ptr>>, 2),
     ecall_evg_add_rule |-> Case(<<B1, B1, Ptr, B4, B4, Node>>, 0),
     ecall_oftable_enable_eviction |-> Case(<<B1, B1, Ptr, B8, B4, Ptr>>, 0),
     ecall_oftable_enable_eviction_c |-> Case(<<B1, B1>>, 4),
     ecall_oftable_enable_eviction_r |-> Case(<<B1, Ptr, B4, B1>>, 0),
     ecall_cls_remove |-> Case(<<B1, B1, Ptr>>, 0),
     ecall_oftable_classifier_replace |-> Case(<<B1, B1, Ptr, Ptr>>, 0),
     ecall_ofproto_get_vlan_c |-> Case(<<B1>>, 4),
     ecall_ofproto_get_vlan_r |-> Case(<<B1, Ptr, B4>>, 0),
     ecall_collect_rules_strict_c |-> Case(<<B1, Widened, B1, Ptr, B4>>, 4),
     ecall_collect_rules_strict_r |-> Case(<<B1, Widened, Ptr, B4, B1, Ptr, B4>>, 0),
     ecall_oftable_hidden_check |-> Case(<<B1>>, 0)]

LookupCases ==
    [ecall_miniflow_expand |-> Case(<<B1, Ptr, Ptr>>, 0),
     ecall_rule_calculate_tag |-> Case(<<B1, Ptr, Ptr, B1>>, 4),
     ecall_rule_calculate_tag_s |-> Case(<<B1, Widened, Ptr>>, 4),
     ecall_oftable_update_taggable |-> Case(<<B1, B1>>, 4),
     ecall_oftable_is_other_table |-> Case(<<B1, Widened>>, 4),
     ecall_oftable_cls_lookup |-> Case(<<B1, Ptr, B1, Ptr, Ptr>>, 0),
     ecall_evg_remove_rule |-> Case(<<B1, B1, Ptr>>, 0),
     ecall_dpif_destroy_c |-> Case(<<B1>>, 4),
     ecall_dpif_destroy_r |-> Case(<<B1, Ptr, B4>>, 0),
     ecall_oftable_get_cls_rules |-> Case(<<B1, B1, B8, B8, Ptr, B8, Ptr>>, 8),
     ecall_get_cls_rules_and_enable_eviction |->
         Case(<<B1, B1, B8, B8, Ptr, B8, Ptr, Ptr, B8, B4, Ptr, Ptr>>, 8)]

MergedCases ==
    [ecall_eviction_group_add_rules |-> Case(<<Narrowed, Narrowed, B8, Ptr, Ptr, Ptr, B4>>, 0),
     ecall_ofproto_get_vlan_usage |-> Case(<<B1, B8, Ptr, B8, B8, Ptr>>, 8),
     ecall_ofproto_flush |-> Case(<<B1, Ptr, Ptr, B8, B8, B8, Ptr>>, 8),
     ecall_ofproto_evict |-> Case(<<B1, Widened, B8, Ptr, Ptr, B8, Ptr>>, 8),
     ecall_add_flow |->
         Case(<<B1, B1, Ptr, Ptr, Ptr, Ptr, Ptr, Ptr, Ptr, B4, B2, B4, B4, Node, Ptr, B4, B1,
                Ptr, Ptr, Ptr, Ptr, Ptr>>, 0),
     ecall_collect_rules_loose |-> Case(<<B1, B1, B4, B8, Ptr, Ptr, Ptr, B8, Ptr, Ptr>>, 8),
     ecall_collect_rules_strict |->
         Case(<<Narrowed, Narrowed, B4, Ptr, B4, Ptr, Ptr, Ptr, B8>>, 8),
     ecall_delete_flows |-> Case(<<B1, Ptr, Ptr, Ptr, Ptr, Ptr, Ptr, B8>>, 0)]

(* The last case drops the result of its ecall.                            *)
LastCases_IntReads ==
    [ecall_oftable_configure |-> Case(<<B1, B1, Ptr, B4, Ptr, B4, Ptr, Ptr>>, 0),
     ecall_need_to_evict |-> Case(<<B1, B1>>, 1),
     ecall_collect_rules_loose_stats_request |->
         Case(<<B1, B1, B4, B8, B8, Ptr, Ptr, Ptr, Ptr, Ptr>>, 8),
     ecall_ofproto_rule_send_removed |-> Case(<<B1, Ptr, Ptr, Ptr, Ptr>>, 0),
     ecall_oftable_remove_rules |-> Case(<<B1, Ptr, Ptr, Ptr, B4>>, 0),
     ecall_minimatch_expand_and_get_priority |-> Case(<<B1, Ptr, Ptr, Ptr>>, 0),
     ecall_miniflow_expand_and_tag |-> Case(<<B1, Ptr, Ptr, B1>>, 0)]
LastCases_HalfStored ==
    [ecall_oftable_configure |-> Case(<<B1, B1, Ptr, B4, Ptr, B8, Ptr, Ptr>>, 0),
     ecall_need_to_evict |-> Case(<<B1, B1>>, 1),
     ecall_collect_rules_loose_stats_request |->
         Case(<<B1, B1, B4, B8, B8, Ptr, Ptr, Ptr, Ptr, Ptr>>, 4),
     ecall_ofproto_rule_send_removed |-> Case(<<B1, Ptr, Ptr, Ptr, Ptr>>, 0),
     ecall_oftable_remove_rules |-> Case(<<B1, Ptr, Ptr, Ptr, B8>>, 0),
     ecall_minimatch_expand_and_get_priority |-> Case(<<B1, Ptr, Ptr, Ptr>>, 0),
     ecall_miniflow_expand_and_tag |-> Case(<<B1, Ptr, Ptr, B1>>, 0)]
LastCases ==
    [ecall_oftable_configure |-> Case(<<B1, B1, Ptr, B4, Ptr, B8, Ptr, Ptr>>, 0),
     ecall_need_to_evict |-> Case(<<B1, B1>>, 1),
     ecall_collect_rules_loose_stats_request |->
         Case(<<B1, B1, B4, B8, B8, Ptr, Ptr, Ptr, Ptr, Ptr>>, 8),
     ecall_ofproto_rule_send_removed |-> Case(<<B1, Ptr, Ptr, Ptr, Ptr>>, 0),
     ecall_oftable_remove_rules |-> Case(<<B1, Ptr, Ptr, Ptr, B8>>, 0),
     ecall_minimatch_expand_and_get_priority |-> Case(<<B1, Ptr, Ptr, Ptr>>, 0),
     ecall_miniflow_expand_and_tag |-> Case(<<B1, Ptr, Ptr, B1>>, 0)]

Cases == FirstCases @@ LooseCases @@ VlanCases @@ LookupCases @@ MergedCases @@ LastCases
=============================================================================
