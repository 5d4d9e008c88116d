---------------------------- MODULE ImageFormat ----------------------------
(* The record formats of pool_info.img, dump.img, frame.img and interp.img. *)
(*                                                                          *)
(* Nothing in an image says what a byte is: every fwrite of wasm_dump.c has *)
(* to meet an fread of the same width for the same field in wasm_restore.c, *)
(* and one field too many shifts all that follows.  A layout is the         *)
(* sequence of the fields that a function writes or reads.  It depends on   *)
(* the members n of the structure that the function branches on; the        *)
(* reader's n holds what it has read so far.  c is the context of the       *)
(* structure: the size of its info and, for a frame, its function.          *)
(*                                                                          *)
(* The writers and the readers are translated one by one.  Types whose      *)
(* functions only report that they are unsupported have no layout.          *)
EXTENDS Integers, Sequences, SequencesExt

CONSTANTS CacheSize, \* entries of block_addr_cache (128 in the code)
          MaxCount,  \* bound of counts: locals, params, labels, elements
          MaxList    \* bound of the elements of an array of structures

VARIABLES obj,    \* the structure that is checkpointed
          phase,  \* what is done next
          image,  \* its record, in dump.img, frame.img or interp.img
          info,   \* the p_abs of the infos that restore_runtime has built
          pos,    \* bytes of the image that have been read
          elem,   \* the element of the array that is being restored
          field,  \* the fields of that element that have been read
          node,   \* the members of that element that restore branches on
          log     \* what was read: into which field, and which field it was

vars == <<obj, phase, image, info, pos, elem, field, node, log>>

----------------------------------------------------------------------------
(* Layouts: a field is named by a word and a number, and has a width.       *)

At(f, i, w) == [f |-> <<f, i>>, w |-> w]
Row(w, fs) == [k \in DOMAIN fs |-> At(fs[k], 0, w)]
Many(f, w, n) == [i \in 1..n |-> At(f, i, w)]

U8(fs) == Row(1, fs)
U16(fs) == Row(2, fs)
U32(fs) == Row(4, fs)
U64(fs) == Row(8, fs)

\* DUMP_PTR and RESTORE_PTR: a p_abs, or -1 for NULL, always as an int.
PTR(fs) == Row(4, fs)

\* Each element of an array of structures begins with its own p_abs.
ABS == Row(4, <<"p_abs">>)

\* sizeof(float64) * 2
V128(fs) == Row(16, fs)

Const32 == {65, 66, 67, 68}      \* INIT_EXPR_TYPE_I32_CONST to _F64_CONST
ConstV128 == 253
ConstRef == {210, 208}
ConstGlobal == 35
InitExprTypes == Const32 \union {ConstV128} \union ConstRef \union {ConstGlobal}

\* VALUE_TYPE_I32, I64, F32, F64, V128, FUNCREF, EXTERNREF
ValueTypes == 123..127 \union {111, 112}

----------------------------------------------------------------------------
(* wasm_dump.c *)

\* The union of an InitializerExpression is written by its kind.
dump_init_expr(t) ==
    CASE t \in Const32 -> U64(<<"u">>)
      [] t = ConstV128 -> V128(<<"u">>)
      [] t \in ConstRef \union {ConstGlobal} -> U32(<<"u">>)
      [] OTHER -> U64(<<"u">>)

dump_char(n, c) == Many("data", 1, c.size)

dump_charT(n, c) == Many("data", 4, c.size)

dump_uint8(n, c) == Many("data", 1, c.size)

dump_uint16(n, c) == Many("data", 2, c.size)

dump_uint32(n, c) == Many("data", 4, c.size)

dump_uint64(n, c) == Many("data", 8, c.size)

\* An entry of the cache is one NULL, or the code buffer and three offsets.
dump_BlockAddr(n, i) ==
    IF n[<<"code", i>>] = -1
    THEN <<At("code", i, 4)>>
    ELSE <<At("code", i, 4), At("start_addr", i, 4), At("else_addr", i, 4),
           At("end_addr", i, 4)>>

dump_WASMExecEnv(n, c) ==
    PTR(<<"next", "prev", "module_inst", "attachment">>)
    \o FlattenSeq([i \in 1..CacheSize |-> dump_BlockAddr(n, i)])
    \o U32(<<"wasm_stack_size">>)

dump_WASMModuleMemConsumption(n, c) ==
    ABS \o U32(<<"total_size", "module_struct_size", "types_size",
          "imports_size", "functions_size", "tables_size", "memories_size", "globals_size",
          "exports_size", "table_segs_size", "data_segs_size",
          "const_strs_size">>)

dump_WASMModuleInstMemConsumption(n, c) ==
    ABS \o U32(<<"total_size", "module_inst_struct_size", "memories_size",
          "app_heap_size", "tables_size", "globals_size", "functions_size",
          "exports_size">>)

dump_WASMSection(n, c) ==
    ABS \o PTR(<<"next">>) \o U32(<<"section_type">>) \o PTR(<<"section_body">>)
    \o U32(<<"section_body_size">>)

dump_WASMModule(n, c) ==
    ABS \o U32(<<"module_type", "type_count", "import_count", "function_count",
          "table_count", "memory_count", "global_count", "export_count",
          "table_seg_count", "data_seg_count", "import_function_count",
          "import_table_count", "import_memory_count", "import_global_count">>)
    \o PTR(<<"import_functions", "import_tables", "import_memories",
             "import_globals", "types", "imports", "functions", "tables",
             "memories", "globals", "exports", "table_segments",
             "data_segments">>)
    \o U32(<<"start_function", "aux_data_end_global_index", "aux_data_end",
             "aux_heap_base_global_index", "aux_heap_base",
             "aux_stack_top_global_index", "aux_stack_bottom",
             "aux_stack_size", "malloc_function", "free_function",
             "retain_function">>)
    \o U8(<<"possible_memory_grow">>) \o PTR(<<"const_str_list">>)
    \o U8(<<"is_wasi_module">>)

dump_WASMFunction(n, c) ==
    PTR(<<"func_type">>) \o U32(<<"local_count">>)
    \o U16(<<"param_cell_num", "ret_cell_num", "local_cell_num">>)
    \o PTR(<<"local_offsets">>)
    \o U32(<<"max_stack_cell_num", "max_block_num">>)
    \o U8(<<"has_op_memory_grow", "has_op_func_call">>)
    \o U32(<<"code_size">>) \o PTR(<<"code">>)
    \o Many("local_types", 1, n[<<"local_count", 0>>])

dump_WASMFunctionT(n, c) == Many("data", 4, c.size)

dump_WASMGlobal(n, c) ==
    ABS \o U8(<<"type", "is_mutable", "init_expr_type">>)
    \o dump_init_expr(n[<<"init_expr_type", 0>>])

\* name points into a StringNode; the StringNode's own address is written.
dump_WASMExport(n, c) ==
    ABS \o PTR(<<"name">>) \o U8(<<"kind">>) \o U32(<<"index">>)

dump_V128(n, c) == ABS \o V128(<<"f64x2">>)

dump_WASMValue(n, c) == ABS \o V128(<<"v128">>)

dump_InitializerExpression(n, c) ==
    ABS \o U8(<<"init_expr_type">>)
    \o dump_init_expr(n[<<"init_expr_type", 0>>])

dump_WASMType(n, c) ==
    U16(<<"param_count", "result_count", "param_cell_num", "ret_cell_num">>)
    \o Many("types", 1, n[<<"param_count", 0>>] + n[<<"result_count", 0>>])

dump_WASMTypeT(n, c) == Many("data", 4, c.size)

dump_WASMTable(n, c) ==
    ABS \o U8(<<"elem_type">>) \o U32(<<"flags", "init_size", "max_size">>)
    \o U8(<<"possible_grow">>)

dump_WASMMemory(n, c) ==
    ABS \o U32(<<"flags", "num_bytes_per_page", "init_page_count",
                  "max_page_count">>)

dump_WASMImport(n, c) ==
    ABS \o U8(<<"kind">>) \o PTR(<<"module_name", "field_name">>)
    \o CASE n[<<"kind", 0>>] = 0 ->
              PTR(<<"func_type">>)
              \o U8(<<"call_conv_raw", "call_conv_wasm_c_api",
                      "wasm_c_api_with_env">>)
         [] n[<<"kind", 0>>] = 1 ->
              U8(<<"elem_type">>) \o U32(<<"flags", "init_size", "max_size">>)
              \o U8(<<"possible_grow">>)
         [] n[<<"kind", 0>>] = 2 ->
              U32(<<"flags", "num_bytes_per_page", "init_page_count",
                    "max_page_count">>)
         [] n[<<"kind", 0>>] = 3 ->
              U8(<<"type", "is_mutable">>) \o V128(<<"global_data_linked">>)
              \o U8(<<"is_linked">>)
         [] OTHER -> <<>>

dump_WASMTableSeg(n, c) ==
    ABS \o U32(<<"mode", "elem_type">>) \o U8(<<"is_dropped">>)
    \o U32(<<"table_index">>) \o U8(<<"init_expr_type">>)
    \o dump_init_expr(n[<<"init_expr_type", 0>>])
    \o U32(<<"function_count">>) \o PTR(<<"func_indexes">>)

dump_WASMDataSeg(n, c) ==
    ABS \o U32(<<"memory_index">>) \o U8(<<"init_expr_type">>)
    \o dump_init_expr(n[<<"init_expr_type", 0>>])
    \o U32(<<"data_length">>) \o PTR(<<"data">>)

dump_WASMDataSegT(n, c) == Many("data", 4, c.size)

dump_StringNode(n, c) ==
    U32(<<"size">>) \o PTR(<<"next">>) \o Many("str", 1, c.size)

\* The labels of a frame: three offsets, -1 for NULL, and the cell count.
dump_labels(n) ==
    FlattenSeq([i \in 1..n[<<"bb_num", 0>>] |->
        <<At("begin_addr", i, 8), At("target_addr", i, 8),
          At("frame_sp", i, 8), At("cell_num", i, 4)>>])

\* The frame that the interpreter enters a call with has no function.
dump_WASMInterpFrame(n, c) ==
    PTR(<<"function">>)
    \o IF n[<<"function", 0>>] = -1
       THEN <<>>
       ELSE U64(<<"ip", "sp">>) \o U32(<<"bb_num">>) \o dump_labels(n)
            \o Many("param", 4, c.function.param_cell_num)
            \o Many("local", 4, c.function.local_cell_num)
            \o Many("stack", 4, c.function.max_stack_cell_num)

dump_Const(n, c) ==
    ABS \o V128(<<"value">>) \o U16(<<"slot_index">>) \o U8(<<"value_type">>)

dump_WASMModuleInstance(n, c) ==
    ABS \o U32(<<"module_type", "memory_count", "table_count", "global_count",
          "function_count", "export_func_count">>)
    \o PTR(<<"memories", "tables", "globals", "functions", "export_functions",
             "default_memory", "default_table", "global_data",
             "start_function", "malloc_function", "free_function",
             "retain_function", "module", "exec_env_singleton">>)
    \o U32(<<"temp_ret", "llvm_stack", "default_wasm_stack_size">>)
    \o Row(128, <<"cur_exception">>) \o PTR(<<"custom_data">>)

\* param_types points into a WASMType, whose address is written.
dump_WASMFunctionInstance(n, c) ==
    ABS \o U8(<<"is_import_func">>)
    \o U16(<<"param_count", "local_count", "param_cell_num", "ret_cell_num",
             "local_cell_num">>)
    \o IF n[<<"is_import_func", 0>>] = 1
       THEN PTR(<<"func_import", "param_types">>)
       ELSE PTR(<<"func", "local_offsets", "param_types">>)

dump_WASMMemoryInstance(n, c) ==
    ABS \o U32(<<"module_type">>) \o U8(<<"is_shared">>)
    \o U32(<<"num_bytes_per_page", "cur_page_count", "max_page_count">>)
    \o PTR(<<"memory_data">>)

dump_WASMMemoryInstanceT(n, c) == Many("data", 4, c.size)

\* The size of the info is in bytes, the entries are words.
dump_WASMTableInstance(n, c) ==
    U8(<<"elem_type">>) \o U32(<<"cur_size", "max_size">>)
    \o Many("base_addr", 4, c.size \div 4)

dump_WASMTableInstanceT(n, c) == Many("data", 4, c.size)

\* The switch compares a value type with the kinds of an initializer, so it
\* takes its default for every global.
dump_WASMGlobalInstance(n, c) ==
    ABS \o U8(<<"type", "is_mutable">>) \o U32(<<"data_offset">>)
    \o dump_init_expr(n[<<"type", 0>>])

dump_WASMExportFuncInstance(n, c) == ABS \o PTR(<<"name", "function">>)

\* The locals of wasm_interp_call_func_bytecode, in interp.img.
dump_interp(n, c) ==
    PTR(<<"module", "exec_env", "cur_func", "prev_frame", "memory">>)
    \o U32(<<"num_bytes_per_page">>) \o PTR(<<"global_data">>)
    \o U32(<<"linear_mem_size">>) \o PTR(<<"wasm_types", "globals", "global">>)
    \o U8(<<"opcode_IMPDEP">>) \o PTR(<<"frame">>)
    \o U64(<<"frame_ip", "frame_sp", "frame_csp">>) \o U8(<<"opcode">>)
    \o U32(<<"i", "depth", "cond", "count", "fidx", "tidx", "lidx",
             "frame_size">>)
    \o U64(<<"all_cell_num">>) \o U32(<<"val">>)
    \o U64(<<"else_addr", "end_addr", "maddr">>)
    \o U32(<<"local_idx", "local_offset", "global_idx">>)
    \o U8(<<"local_type">>) \o U64(<<"global_addr">>)
    \o U32(<<"cache_index", "type_index", "cell_num">>) \o U8(<<"value_type">>)

----------------------------------------------------------------------------
(* wasm_restore.c *)

restore_init_expr(t) ==
    CASE t \in Const32 -> U64(<<"u">>)
      [] t = ConstV128 -> V128(<<"u">>)
      [] t \in ConstRef -> U32(<<"u">>)
      [] t = ConstGlobal -> U32(<<"u">>)
      [] OTHER -> U64(<<"u">>)

restore_char(n, c) == Many("data", 1, c.size)

restore_charT(n, c) == Many("data", 4, c.size)

restore_uint8(n, c) == Many("data", 1, c.size)

restore_uint16(n, c) == Many("data", 2, c.size)

restore_uint32(n, c) == Many("data", 4, c.size)

restore_uint64(n, c) == Many("data", 8, c.size)

restore_BlockAddr(n, i) ==
    <<At("code", i, 4)>>
    \o IF n[<<"code", i>>] = -1
       THEN <<>>
       ELSE <<At("start_addr", i, 4), At("else_addr", i, 4),
              At("end_addr", i, 4)>>

restore_WASMExecEnv(n, c) ==
    PTR(<<"next", "prev", "module_inst", "attachment">>)
    \o FlattenSeq([i \in 1..CacheSize |-> restore_BlockAddr(n, i)])
    \o U32(<<"wasm_stack_size">>)

restore_WASMModuleMemConsumption(n, c) ==
    ABS \o U32(<<"total_size", "module_struct_size", "types_size",
          "imports_size", "functions_size", "tables_size", "memories_size", "globals_size",
          "exports_size", "table_segs_size", "data_segs_size",
          "const_strs_size">>)

restore_WASMModuleInstMemConsumption(n, c) ==
    ABS \o U32(<<"total_size", "module_inst_struct_size", "memories_size",
          "app_heap_size", "tables_size", "globals_size", "functions_size",
          "exports_size">>)

restore_WASMSection(n, c) ==
    ABS \o PTR(<<"next">>) \o U32(<<"section_type">>) \o PTR(<<"section_body">>)
    \o U32(<<"section_body_size">>)

restore_WASMModule(n, c) ==
    ABS \o U32(<<"module_type", "type_count", "import_count", "function_count",
          "table_count", "memory_count", "global_count", "export_count",
          "table_seg_count", "data_seg_count", "import_function_count",
          "import_table_count", "import_memory_count", "import_global_count">>)
    \o PTR(<<"import_functions", "import_tables", "import_memories",
             "import_globals", "types", "imports", "functions", "tables",
             "memories", "globals", "exports", "table_segments",
             "data_segments">>)
    \o U32(<<"start_function", "aux_data_end_global_index", "aux_data_end",
             "aux_heap_base_global_index", "aux_heap_base",
             "aux_stack_top_global_index", "aux_stack_bottom",
             "aux_stack_size", "malloc_function", "free_function",
             "retain_function">>)
    \o U8(<<"possible_memory_grow">>) \o PTR(<<"const_str_list">>)
    \o U8(<<"is_wasi_module">>)

\* The pointer local_types is set to the end of the block; its bytes come last.
restore_WASMFunction(n, c) ==
    PTR(<<"func_type">>) \o U32(<<"local_count">>)
    \o U16(<<"param_cell_num", "ret_cell_num", "local_cell_num">>)
    \o PTR(<<"local_offsets">>)
    \o U32(<<"max_stack_cell_num", "max_block_num">>)
    \o U8(<<"has_op_memory_grow", "has_op_func_call">>)
    \o U32(<<"code_size">>) \o PTR(<<"code">>)
    \o Many("local_types", 1, n[<<"local_count", 0>>])

restore_WASMFunctionT(n, c) == Many("data", 4, c.size)

restore_WASMGlobal(n, c) ==
    ABS \o U8(<<"type", "is_mutable", "init_expr_type">>)
    \o restore_init_expr(n[<<"init_expr_type", 0>>])

restore_WASMExport(n, c) ==
    ABS \o PTR(<<"name">>) \o U8(<<"kind">>) \o U32(<<"index">>)

restore_V128(n, c) == ABS \o V128(<<"f64x2">>)

restore_WASMValue(n, c) == ABS \o V128(<<"v128">>)

restore_InitializerExpression(n, c) ==
    ABS \o U8(<<"init_expr_type">>)
    \o restore_init_expr(n[<<"init_expr_type", 0>>])

restore_WASMType(n, c) ==
    U16(<<"param_count", "result_count", "param_cell_num", "ret_cell_num">>)
    \o Many("types", 1, n[<<"param_count", 0>>] + n[<<"result_count", 0>>])

restore_WASMTypeT(n, c) == Many("data", 4, c.size)

restore_WASMTable(n, c) ==
    ABS \o U8(<<"elem_type">>) \o U32(<<"flags", "init_size", "max_size">>)
    \o U8(<<"possible_grow">>)

restore_WASMMemory(n, c) ==
    ABS \o U32(<<"flags", "num_bytes_per_page", "init_page_count",
                  "max_page_count">>)

restore_WASMImport(n, c) ==
    ABS \o U8(<<"kind">>) \o PTR(<<"module_name", "field_name">>)
    \o CASE n[<<"kind", 0>>] = 0 ->
              PTR(<<"func_type">>)
              \o U8(<<"call_conv_raw", "call_conv_wasm_c_api",
                      "wasm_c_api_with_env">>)
         [] n[<<"kind", 0>>] = 1 ->
              U8(<<"elem_type">>) \o U32(<<"flags", "init_size", "max_size">>)
              \o U8(<<"possible_grow">>)
         [] n[<<"kind", 0>>] = 2 ->
              U32(<<"flags", "num_bytes_per_page", "init_page_count",
                    "max_page_count">>)
         [] n[<<"kind", 0>>] = 3 ->
              U8(<<"type", "is_mutable">>) \o V128(<<"global_data_linked">>)
              \o U8(<<"is_linked">>)
         [] OTHER -> <<>>

\* Faulty variant of restore_WASMTableSeg: two members are read in the order of
\* the structure, not in that of the writer.
restore_WASMTableSegSwapped(n, c) ==
    ABS \o U32(<<"mode">>) \o U8(<<"is_dropped">>)
    \o U32(<<"elem_type", "table_index">>) \o U8(<<"init_expr_type">>)
    \o restore_init_expr(n[<<"init_expr_type", 0>>])
    \o U32(<<"function_count">>) \o PTR(<<"func_indexes">>)

restore_WASMTableSeg(n, c) ==
    ABS \o U32(<<"mode", "elem_type">>) \o U8(<<"is_dropped">>)
    \o U32(<<"table_index">>) \o U8(<<"init_expr_type">>)
    \o restore_init_expr(n[<<"init_expr_type", 0>>])
    \o U32(<<"function_count">>) \o PTR(<<"func_indexes">>)

restore_WASMDataSeg(n, c) ==
    ABS \o U32(<<"memory_index">>) \o U8(<<"init_expr_type">>)
    \o restore_init_expr(n[<<"init_expr_type", 0>>])
    \o U32(<<"data_length">>) \o PTR(<<"data">>)

restore_WASMDataSegT(n, c) == Many("data", 4, c.size)

\* As many characters as the record says; RestoreField compares the size.
restore_StringNode(n, c) ==
    U32(<<"size">>) \o PTR(<<"next">>) \o Many("str", 1, n[<<"size", 0>>])

restore_labels(n) ==
    FlattenSeq([i \in 1..n[<<"bb_num", 0>>] |->
        <<At("begin_addr", i, 8), At("target_addr", i, 8),
          At("frame_sp", i, 8), At("cell_num", i, 4)>>])

restore_WASMInterpFrame(n, c) ==
    PTR(<<"function">>)
    \o IF n[<<"function", 0>>] = -1
       THEN <<>>
       ELSE U64(<<"ip", "sp">>) \o U32(<<"bb_num">>) \o restore_labels(n)
            \o Many("param", 4, c.function.param_cell_num)
            \o Many("local", 4, c.function.local_cell_num)
            \o Many("stack", 4, c.function.max_stack_cell_num)

restore_Const(n, c) ==
    ABS \o V128(<<"value">>) \o U16(<<"slot_index">>) \o U8(<<"value_type">>)

restore_WASMModuleInstance(n, c) ==
    ABS \o U32(<<"module_type", "memory_count", "table_count", "global_count",
          "function_count", "export_func_count">>)
    \o PTR(<<"memories", "tables", "globals", "functions", "export_functions",
             "default_memory", "default_table", "global_data",
             "start_function", "malloc_function", "free_function",
             "retain_function", "module", "exec_env_singleton">>)
    \o U32(<<"temp_ret", "llvm_stack", "default_wasm_stack_size">>)
    \o Row(128, <<"cur_exception">>) \o PTR(<<"custom_data">>)

restore_WASMFunctionInstance(n, c) ==
    ABS \o U8(<<"is_import_func">>)
    \o U16(<<"param_count", "local_count", "param_cell_num", "ret_cell_num",
             "local_cell_num">>)
    \o IF n[<<"is_import_func", 0>>] = 1
       THEN PTR(<<"func_import", "param_types">>)
       ELSE PTR(<<"func", "local_offsets", "param_types">>)

restore_WASMMemoryInstance(n, c) ==
    ABS \o U32(<<"module_type">>) \o U8(<<"is_shared">>)
    \o U32(<<"num_bytes_per_page", "cur_page_count", "max_page_count">>)
    \o PTR(<<"memory_data">>)

restore_WASMMemoryInstanceT(n, c) == Many("data", 4, c.size)

restore_WASMTableInstance(n, c) ==
    U8(<<"elem_type">>) \o U32(<<"cur_size", "max_size">>)
    \o Many("base_addr", 4, c.size \div 4)

restore_WASMTableInstanceT(n, c) == Many("data", 4, c.size)

\* Faulty variant of restore_WASMGlobalInstance: the switch has no default.
restore_WASMGlobalInstanceNoDefault(n, c) ==
    ABS \o U8(<<"type", "is_mutable">>) \o U32(<<"data_offset">>)
    \o IF n[<<"type", 0>>] \in InitExprTypes \ ConstRef
       THEN restore_init_expr(n[<<"type", 0>>])
       ELSE <<>>

\* The case of the references writes where it should read.
restore_WASMGlobalInstance(n, c) ==
    ABS \o U8(<<"type", "is_mutable">>) \o U32(<<"data_offset">>)
    \o IF n[<<"type", 0>>] \in ConstRef
       THEN <<>>
       ELSE restore_init_expr(n[<<"type", 0>>])

restore_WASMExportFuncInstance(n, c) == ABS \o PTR(<<"name", "function">>)

restore_interp(n, c) ==
    PTR(<<"module", "exec_env", "cur_func", "prev_frame", "memory">>)
    \o U32(<<"num_bytes_per_page">>) \o PTR(<<"global_data">>)
    \o U32(<<"linear_mem_size">>) \o PTR(<<"wasm_types", "globals", "global">>)
    \o U8(<<"opcode_IMPDEP">>) \o PTR(<<"frame">>)
    \o U64(<<"frame_ip", "frame_sp", "frame_csp">>) \o U8(<<"opcode">>)
    \o U32(<<"i", "depth", "cond", "count", "fidx", "tidx", "lidx",
             "frame_size">>)
    \o U64(<<"all_cell_num">>) \o U32(<<"val">>)
    \o U64(<<"else_addr", "end_addr", "maddr">>)
    \o U32(<<"local_idx", "local_offset", "global_idx">>)
    \o U8(<<"local_type">>) \o U64(<<"global_addr">>)
    \o U32(<<"cache_index", "type_index", "cell_num">>) \o U8(<<"value_type">>)

----------------------------------------------------------------------------
(* The tables of the functions, and the infos of restore_runtime. *)

dump_data(t, n, c) ==
    CASE t = "char" -> dump_char(n, c)
      [] t = "charT" -> dump_charT(n, c)
      [] t = "uint8" -> dump_uint8(n, c)
      [] t = "uint16" -> dump_uint16(n, c)
      [] t = "uint32" -> dump_uint32(n, c)
      [] t = "uint64" -> dump_uint64(n, c)
      [] t = "WASMExecEnv" -> dump_WASMExecEnv(n, c)
      [] t = "WASMModuleMemConsumption" -> dump_WASMModuleMemConsumption(n, c)
      [] t = "WASMModuleInstMemConsumption" ->
           dump_WASMModuleInstMemConsumption(n, c)
      [] t = "WASMSection" -> dump_WASMSection(n, c)
      [] t = "WASMModule" -> dump_WASMModule(n, c)
      [] t = "WASMFunction" -> dump_WASMFunction(n, c)
      [] t = "WASMFunctionT" -> dump_WASMFunctionT(n, c)
      [] t = "WASMGlobal" -> dump_WASMGlobal(n, c)
      [] t = "WASMExport" -> dump_WASMExport(n, c)
      [] t = "V128" -> dump_V128(n, c)
      [] t = "WASMValue" -> dump_WASMValue(n, c)
      [] t = "InitializerExpression" -> dump_InitializerExpression(n, c)
      [] t = "WASMType" -> dump_WASMType(n, c)
      [] t = "WASMTypeT" -> dump_WASMTypeT(n, c)
      [] t = "WASMTable" -> dump_WASMTable(n, c)
      [] t = "WASMMemory" -> dump_WASMMemory(n, c)
      [] t = "WASMImport" -> dump_WASMImport(n, c)
      [] t = "WASMTableSeg" -> dump_WASMTableSeg(n, c)
      [] t = "WASMDataSeg" -> dump_WASMDataSeg(n, c)
      [] t = "WASMDataSegT" -> dump_WASMDataSegT(n, c)
      [] t = "StringNode" -> dump_StringNode(n, c)
      [] t = "WASMInterpFrame" -> dump_WASMInterpFrame(n, c)
      [] t = "Const" -> dump_Const(n, c)
      [] t = "WASMModuleInstance" -> dump_WASMModuleInstance(n, c)
      [] t = "WASMFunctionInstance" -> dump_WASMFunctionInstance(n, c)
      [] t = "WASMMemoryInstance" -> dump_WASMMemoryInstance(n, c)
      [] t = "WASMMemoryInstanceT" -> dump_WASMMemoryInstanceT(n, c)
      [] t = "WASMTableInstance" -> dump_WASMTableInstance(n, c)
      [] t = "WASMTableInstanceT" -> dump_WASMTableInstanceT(n, c)
      [] t = "WASMGlobalInstance" -> dump_WASMGlobalInstance(n, c)
      [] t = "WASMExportFuncInstance" -> dump_WASMExportFuncInstance(n, c)
      [] t = "interp" -> dump_interp(n, c)

restore_data(t, n, c) ==
    CASE t = "char" -> restore_char(n, c)
      [] t = "charT" -> restore_charT(n, c)
      [] t = "uint8" -> restore_uint8(n, c)
      [] t = "uint16" -> restore_uint16(n, c)
      [] t = "uint32" -> restore_uint32(n, c)
      [] t = "uint64" -> restore_uint64(n, c)
      [] t = "WASMExecEnv" -> restore_WASMExecEnv(n, c)
      [] t = "WASMModuleMemConsumption" ->
           restore_WASMModuleMemConsumption(n, c)
      [] t = "WASMModuleInstMemConsumption" ->
           restore_WASMModuleInstMemConsumption(n, c)
      [] t = "WASMSection" -> restore_WASMSection(n, c)
      [] t = "WASMModule" -> restore_WASMModule(n, c)
      [] t = "WASMFunction" -> restore_WASMFunction(n, c)
      [] t = "WASMFunctionT" -> restore_WASMFunctionT(n, c)
      [] t = "WASMGlobal" -> restore_WASMGlobal(n, c)
      [] t = "WASMExport" -> restore_WASMExport(n, c)
      [] t = "V128" -> restore_V128(n, c)
      [] t = "WASMValue" -> restore_WASMValue(n, c)
      [] t = "InitializerExpression" -> restore_InitializerExpression(n, c)
      [] t = "WASMType" -> restore_WASMType(n, c)
      [] t = "WASMTypeT" -> restore_WASMTypeT(n, c)
      [] t = "WASMTable" -> restore_WASMTable(n, c)
      [] t = "WASMMemory" -> restore_WASMMemory(n, c)
      [] t = "WASMImport" -> restore_WASMImport(n, c)
      [] t = "WASMTableSeg" -> restore_WASMTableSeg(n, c)
      [] t = "WASMDataSeg" -> restore_WASMDataSeg(n, c)
      [] t = "WASMDataSegT" -> restore_WASMDataSegT(n, c)
      [] t = "StringNode" -> restore_StringNode(n, c)
      [] t = "WASMInterpFrame" -> restore_WASMInterpFrame(n, c)
      [] t = "Const" -> restore_Const(n, c)
      [] t = "WASMModuleInstance" -> restore_WASMModuleInstance(n, c)
      [] t = "WASMFunctionInstance" -> restore_WASMFunctionInstance(n, c)
      [] t = "WASMMemoryInstance" -> restore_WASMMemoryInstance(n, c)
      [] t = "WASMMemoryInstanceT" -> restore_WASMMemoryInstanceT(n, c)
      [] t = "WASMTableInstance" -> restore_WASMTableInstance(n, c)
      [] t = "WASMTableInstanceT" -> restore_WASMTableInstanceT(n, c)
      [] t = "WASMGlobalInstance" -> restore_WASMGlobalInstance(n, c)
      [] t = "WASMExportFuncInstance" -> restore_WASMExportFuncInstance(n, c)
      [] t = "interp" -> restore_interp(n, c)

\* The types that the loader and the instantiation register with alloc_infos,
\* that is, with a list of the p_abs of the elements behind the first.
RegisteredArrays ==
    {"WASMImport", "WASMTable", "WASMMemory", "WASMGlobal", "WASMExport",
     "WASMTableSeg", "Const", "WASMFunctionInstance", "WASMGlobalInstance",
     "WASMExportFuncInstance"}

\* dump_runtime: the p_abs that pool_info.img has for a block.
DumpedAbs(o) ==
    IF o.type \in RegisteredArrays THEN [i \in 1..o.size |-> i] ELSE <<1>>

\* restore_runtime: the types it reads no list for.
NoListTypes ==
    {"WASMExecEnv", "WASMType", "WASMTableInstance", "StringNode",
     "WASMFunction", "WASMInterpFrame", "char", "charT", "uint8", "uint16",
     "uint32", "uint64", "WASMFunctionT", "WASMTypeT", "WASMDataSegT",
     "WASMMemoryInstanceT", "WASMTableInstanceT"}

ListLength(o) == IF o.type \in NoListTypes THEN 1 ELSE o.size

\* restore_internal and restore_frame_internal read type, size and p_abs of a
\* record and then call the function of the type; interp.img has no header.
header(t) == IF t = "interp" THEN <<>> ELSE Row(4, <<"type", "size", "p_abs">>)

----------------------------------------------------------------------------
(* The structures that are checkpointed. *)

Key(f) == <<f, 0>>
Plain == {[k \in {} |-> 0]}

\* The members that a layout depends on, with the values they can have.
Members(t) ==
    CASE t = "WASMExecEnv" ->
           [{<<"code", i>> : i \in 1..CacheSize} -> {-1, 0}]
      [] t = "WASMFunction" -> [{Key("local_count")} -> 0..MaxCount]
      [] t = "WASMType" ->
           [{Key("param_count"), Key("result_count")} -> 0..MaxCount]
      [] t \in {"WASMGlobal", "InitializerExpression", "WASMTableSeg",
                "WASMDataSeg"} ->
           [{Key("init_expr_type")} -> InitExprTypes]
      [] t = "WASMImport" -> [{Key("kind")} -> 0..3]
      [] t = "WASMGlobalInstance" -> [{Key("type")} -> ValueTypes]
      [] t = "WASMFunctionInstance" -> [{Key("is_import_func")} -> {0, 1}]
      [] t = "StringNode" -> [{Key("size")} -> 1..MaxCount]
      [] t = "WASMInterpFrame" ->
           {n \in [{Key("function"), Key("bb_num")} -> -1..MaxCount] :
               n[Key("function")] <= 0 /\ n[Key("bb_num")] >= 0}
      [] OTHER -> Plain

\* The sizes a Pool_Info has beside the number of elements of an array.
Sizes(t) ==
    CASE t \in {"char", "charT", "uint8", "uint16", "uint32", "uint64",
                "WASMFunctionT", "WASMTypeT", "WASMDataSegT",
                "WASMMemoryInstanceT", "WASMTableInstanceT"} -> 1..MaxCount
      [] t = "WASMTableInstance" -> {4 * k : k \in 0..MaxCount}
      [] OTHER -> {1}

Functions == [param_cell_num : 0..1, local_cell_num : 0..1,
              max_stack_cell_num : 0..MaxCount]

Types == RegisteredArrays \union NoListTypes
         \union {"WASMModuleMemConsumption", "WASMModuleInstMemConsumption",
                 "WASMSection", "WASMModule", "V128", "WASMValue",
                 "InitializerExpression", "WASMDataSeg", "WASMModuleInstance",
                 "WASMMemoryInstance", "interp"}

SomeFunction == CHOOSE f \in Functions : TRUE

Objects(t) ==
    CASE t \in RegisteredArrays ->
           UNION {[type : {t}, size : {k}, elems : [1..k -> Members(t)],
                   function : {SomeFunction}] : k \in 1..MaxList}
      [] t = "StringNode" ->
           {[type |-> t, size |-> n[Key("size")], elems |-> <<n>>,
             function |-> SomeFunction] : n \in Members(t)}
      [] t = "WASMInterpFrame" ->
           [type : {t}, size : {1}, elems : [1..1 -> Members(t)],
            function : Functions]
      [] OTHER ->
           [type : {t}, size : Sizes(t), elems : [1..1 -> Members(t)],
            function : {SomeFunction}]

----------------------------------------------------------------------------
(* Writing: the fields of a record, with element, number and offset. *)

Number(o, e, f) ==
    IF f = Key("p_abs") THEN e
    ELSE IF e > 0 /\ f \in DOMAIN o.elems[e] THEN o.elems[e][f] ELSE 0

Written(o) ==
    LET Part(e) == IF e = 0 THEN header(o.type)
                   ELSE dump_data(o.type, o.elems[e], o)
        Numbered(e) ==
            [j \in DOMAIN Part(e) |->
                [e |-> e, f |-> Part(e)[j].f, w |-> Part(e)[j].w,
                 n |-> Number(o, e, Part(e)[j].f)]]
    IN  FlattenSeq([k \in 1..(Len(o.elems) + 1) |-> Numbered(k - 1)])

Width(s) == FoldLeft(LAMBDA a, x : a + x.w, 0, s)

\* A dump.img: the writes with their offsets.
Image(s) == [k \in DOMAIN s |->
                [at |-> Width(SubSeq(s, 1, k - 1)), w |-> s[k].w,
                 e |-> s[k].e, f |-> s[k].f, n |-> s[k].n]]

\* fread of w bytes at p: what was written there, if just one fwrite filled
\* these bytes.
Read(p, w) == SelectSeq(image, LAMBDA x : x.at = p /\ x.w = w)

----------------------------------------------------------------------------

Init ==
    /\ obj \in UNION {Objects(t) : t \in Types}
    /\ phase = "dump"
    /\ image = <<>> /\ info = <<>>
    /\ pos = 0 /\ elem = 0 /\ field = 0
    /\ node = [k \in {} |-> 0]
    /\ log = <<>>

\* dump_runtime writes a record to dump.img and an entry to pool_info.img.
Dump ==
    /\ phase = "dump"
    /\ image' = Image(Written(obj))
    /\ phase' = "pool"
    /\ UNCHANGED <<obj, info, pos, elem, field, node, log>>

\* restore_runtime makes the infos; a p_abs that is not there is read from the
\* next entry.
RestorePool ==
    /\ phase = "pool"
    /\ LET abs == DumpedAbs(obj)
       IN  /\ info' = [i \in 1..ListLength(obj) |->
                          IF i <= Len(abs) THEN abs[i] ELSE 0]
           /\ phase' = IF Len(abs) = ListLength(obj) THEN "record" ELSE "shift"
    /\ node' = [k \in DOMAIN obj.elems[1] |-> 0]
    /\ UNCHANGED <<obj, image, pos, elem, field, log>>

Layout == IF elem = 0 THEN header(obj.type)
          ELSE restore_data(obj.type, node, obj)

\* One fread, and the comparisons of p_abs and of the size of a string.
RestoreField ==
    /\ phase = "record" /\ field < Len(Layout)
    /\ LET x == Layout[field + 1]
           r == Read(pos, x.w)
           n == IF r = <<>> THEN 0 ELSE r[1].n
       IN  /\ pos' = pos + x.w
           /\ field' = field + 1
           /\ log' = Append(log, [into |-> <<elem, x.f>>,
                                  from |-> IF r = <<>> THEN <<>>
                                           ELSE <<r[1].e, r[1].f>>])
           /\ node' = IF x.f \in DOMAIN node
                      THEN [node EXCEPT ![x.f] = n] ELSE node
           /\ phase' = IF \/ x.f = Key("p_abs") /\ elem > 0 /\ n # info[elem]
                          \/ /\ x.f = Key("size") /\ obj.type = "StringNode"
                             /\ elem > 0 /\ n # obj.size
                       THEN "exit" ELSE "record"
    /\ UNCHANGED <<obj, image, info, elem>>

\* The loop of HEADER_RESTORE, and the end of the function.
NextElement ==
    /\ phase = "record" /\ field = Len(Layout)
    /\ IF elem < Len(info)
       THEN elem' = elem + 1 /\ phase' = phase
       ELSE elem' = elem /\ phase' = "end"
    /\ field' = 0
    /\ node' = [k \in DOMAIN node |-> 0]
    /\ UNCHANGED <<obj, image, info, pos, log>>

Next == Dump \/ RestorePool \/ RestoreField \/ NextElement

Spec == Init /\ [][Next]_vars

----------------------------------------------------------------------------

\* The states are well formed.
TypeOK ==
    /\ obj.type \in Types
    /\ phase \in {"dump", "pool", "record", "end", "exit", "shift"}
    /\ elem \in 0..MaxList /\ field \in Nat
    /\ pos \in Nat

\* Every fread of wasm_restore.c gets the bytes that wasm_dump.c wrote for the
\* same member of the same element, whatever the structure holds.
FieldsRestored == \A k \in DOMAIN log : log[k].from = log[k].into

\* The reader does not lose its place in a checkpoint that was written
\* completely: wherever HEADER_RESTORE compares a p_abs, and
\* restore_StringNode a size, the bytes there are those of the p_abs or the
\* size, so that exit(1) is not reached; no fread goes past its record; and
\* the reader stops where the writer stopped, in pool_info.img and dump.img.
RecordsAligned ==
    /\ phase \notin {"exit", "shift"}
    /\ pos <= Width(image)
    /\ phase = "end" => pos = Width(image)

=============================================================================
