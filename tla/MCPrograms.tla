----------------------------- MODULE MCPrograms -----------------------------
(* The entry points of PyRefs, as the programs of the runs use them.       *)

AttributeOps == {"getattr", "setattr", "delattr", "define_method",
                 "wrapper_get", "wrapper_set", "compare", "str", "dir"}
ItemOps      == {"getitem", "setitem", "delitem", "contains"}
ModuleOps    == {"import", "import_level", "builtins_module_ptr"}
PtrOps       == {"ptr_decref", "ptr_incref", "conv_from_ruby", "conv_to_ruby",
                 "tuple_new", "tuple_to_a"}
CallOps      == {"call", "wrapper_call", "callback"}
LoopOps      == {"each", "each_break", "dict_each"}
ErrorOps     == {"error", "python_error", "conversion_error"}

AllOps == AttributeOps \cup ItemOps \cup ModuleOps \cup PtrOps \cup CallOps
            \cup LoopOps \cup ErrorOps \cup {"finalizer", "key_code"}

=============================================================================
