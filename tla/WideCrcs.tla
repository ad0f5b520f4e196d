------------------------------- MODULE WideCrcs -------------------------------
(***************************************************************************)
(* kcCrc32 and kcCrc64 of kmblack/KcCrc.c and what part11 derives from the *)
(* first.  A number of 32 or 64 bits is the sequence of its bytes, most    *)
(* significant first; the tables list the 16-bit words of one entry after  *)
(* those of the other.                                                     *)
(***************************************************************************)
EXTENDS Division

crc32_tab == <<
  \h0000, \h0000, \h7707, \h3096, \hee0e, \h612c, \h9909, \h51ba, \h076d, \hc419, \h706a, \hf48f,
  \he963, \ha535, \h9e64, \h95a3, \h0edb, \h8832, \h79dc, \hb8a4, \he0d5, \he91e, \h97d2, \hd988,
  \h09b6, \h4c2b, \h7eb1, \h7cbd, \he7b8, \h2d07, \h90bf, \h1d91, \h1db7, \h1064, \h6ab0, \h20f2,
  \hf3b9, \h7148, \h84be, \h41de, \h1ada, \hd47d, \h6ddd, \he4eb, \hf4d4, \hb551, \h83d3, \h85c7,
  \h136c, \h9856, \h646b, \ha8c0, \hfd62, \hf97a, \h8a65, \hc9ec, \h1401, \h5c4f, \h6306, \h6cd9,
  \hfa0f, \h3d63, \h8d08, \h0df5, \h3b6e, \h20c8, \h4c69, \h105e, \hd560, \h41e4, \ha267, \h7172,
  \h3c03, \he4d1, \h4b04, \hd447, \hd20d, \h85fd, \ha50a, \hb56b, \h35b5, \ha8fa, \h42b2, \h986c,
  \hdbbb, \hc9d6, \hacbc, \hf940, \h32d8, \h6ce3, \h45df, \h5c75, \hdcd6, \h0dcf, \habd1, \h3d59,
  \h26d9, \h30ac, \h51de, \h003a, \hc8d7, \h5180, \hbfd0, \h6116, \h21b4, \hf4b5, \h56b3, \hc423,
  \hcfba, \h9599, \hb8bd, \ha50f, \h2802, \hb89e, \h5f05, \h8808, \hc60c, \hd9b2, \hb10b, \he924,
  \h2f6f, \h7c87, \h5868, \h4c11, \hc161, \h1dab, \hb666, \h2d3d, \h76dc, \h4190, \h01db, \h7106,
  \h98d2, \h20bc, \hefd5, \h102a, \h71b1, \h8589, \h06b6, \hb51f, \h9fbf, \he4a5, \he8b8, \hd433,
  \h7807, \hc9a2, \h0f00, \hf934, \h9609, \ha88e, \he10e, \h9818, \h7f6a, \h0dbb, \h086d, \h3d2d,
  \h9164, \h6c97, \he663, \h5c01, \h6b6b, \h51f4, \h1c6c, \h6162, \h8565, \h30d8, \hf262, \h004e,
  \h6c06, \h95ed, \h1b01, \ha57b, \h8208, \hf4c1, \hf50f, \hc457, \h65b0, \hd9c6, \h12b7, \he950,
  \h8bbe, \hb8ea, \hfcb9, \h887c, \h62dd, \h1ddf, \h15da, \h2d49, \h8cd3, \h7cf3, \hfbd4, \h4c65,
  \h4db2, \h6158, \h3ab5, \h51ce, \ha3bc, \h0074, \hd4bb, \h30e2, \h4adf, \ha541, \h3dd8, \h95d7,
  \ha4d1, \hc46d, \hd3d6, \hf4fb, \h4369, \he96a, \h346e, \hd9fc, \had67, \h8846, \hda60, \hb8d0,
  \h4404, \h2d73, \h3303, \h1de5, \haa0a, \h4c5f, \hdd0d, \h7cc9, \h5005, \h713c, \h2702, \h41aa,
  \hbe0b, \h1010, \hc90c, \h2086, \h5768, \hb525, \h206f, \h85b3, \hb966, \hd409, \hce61, \he49f,
  \h5ede, \hf90e, \h29d9, \hc998, \hb0d0, \h9822, \hc7d7, \ha8b4, \h59b3, \h3d17, \h2eb4, \h0d81,
  \hb7bd, \h5c3b, \hc0ba, \h6cad, \hedb8, \h8320, \h9abf, \hb3b6, \h03b6, \he20c, \h74b1, \hd29a,
  \head5, \h4739, \h9dd2, \h77af, \h04db, \h2615, \h73dc, \h1683, \he363, \h0b12, \h9464, \h3b84,
  \h0d6d, \h6a3e, \h7a6a, \h5aa8, \he40e, \hcf0b, \h9309, \hff9d, \h0a00, \hae27, \h7d07, \h9eb1,
  \hf00f, \h9344, \h8708, \ha3d2, \h1e01, \hf268, \h6906, \hc2fe, \hf762, \h575d, \h8065, \h67cb,
  \h196c, \h3671, \h6e6b, \h06e7, \hfed4, \h1b76, \h89d3, \h2be0, \h10da, \h7a5a, \h67dd, \h4acc,
  \hf9b9, \hdf6f, \h8ebe, \heff9, \h17b7, \hbe43, \h60b0, \h8ed5, \hd6d6, \ha3e8, \ha1d1, \h937e,
  \h38d8, \hc2c4, \h4fdf, \hf252, \hd1bb, \h67f1, \ha6bc, \h5767, \h3fb5, \h06dd, \h48b2, \h364b,
  \hd80d, \h2bda, \haf0a, \h1b4c, \h3603, \h4af6, \h4104, \h7a60, \hdf60, \hefc3, \ha867, \hdf55,
  \h316e, \h8eef, \h4669, \hbe79, \hcb61, \hb38c, \hbc66, \h831a, \h256f, \hd2a0, \h5268, \he236,
  \hcc0c, \h7795, \hbb0b, \h4703, \h2202, \h16b9, \h5505, \h262f, \hc5ba, \h3bbe, \hb2bd, \h0b28,
  \h2bb4, \h5a92, \h5cb3, \h6a04, \hc2d7, \hffa7, \hb5d0, \hcf31, \h2cd9, \h9e8b, \h5bde, \hae1d,
  \h9b64, \hc2b0, \hec63, \hf226, \h756a, \ha39c, \h026d, \h930a, \h9c09, \h06a9, \heb0e, \h363f,
  \h7207, \h6785, \h0500, \h5713, \h95bf, \h4a82, \he2b8, \h7a14, \h7bb1, \h2bae, \h0cb6, \h1b38,
  \h92d2, \h8e9b, \he5d5, \hbe0d, \h7cdc, \hefb7, \h0bdb, \hdf21, \h86d3, \hd2d4, \hf1d4, \he242,
  \h68dd, \hb3f8, \h1fda, \h836e, \h81be, \h16cd, \hf6b9, \h265b, \h6fb0, \h77e1, \h18b7, \h4777,
  \h8808, \h5ae6, \hff0f, \h6a70, \h6606, \h3bca, \h1101, \h0b5c, \h8f65, \h9eff, \hf862, \hae69,
  \h616b, \hffd3, \h166c, \hcf45, \ha00a, \he278, \hd70d, \hd2ee, \h4e04, \h8354, \h3903, \hb3c2,
  \ha767, \h2661, \hd060, \h16f7, \h4969, \h474d, \h3e6e, \h77db, \haed1, \h6a4a, \hd9d6, \h5adc,
  \h40df, \h0b66, \h37d8, \h3bf0, \ha9bc, \hae53, \hdebb, \h9ec5, \h47b2, \hcf7f, \h30b5, \hffe9,
  \hbdbd, \hf21c, \hcaba, \hc28a, \h53b3, \h9330, \h24b4, \ha3a6, \hbad0, \h3605, \hcdd7, \h0693,
  \h54de, \h5729, \h23d9, \h67bf, \hb366, \h7a2e, \hc461, \h4ab8, \h5d68, \h1b02, \h2a6f, \h2b94,
  \hb40b, \hbe37, \hc30c, \h8ea1, \h5a05, \hdf1b, \h2d02, \hef8d>>

crc64_tab == <<
  \h0000, \h0000, \h0000, \h0000, \h7ad8, \h70c8, \h3035, \h8979, \hf5b0, \he190, \h606b, \h12f2,
  \h8f68, \h9158, \h505e, \h9b8b, \hc038, \he573, \h9841, \hb68f, \hbae0, \h95bb, \ha874, \h3ff6,
  \h3588, \h04e3, \hf82a, \ha47d, \h4f50, \h742b, \hc81f, \h2d04, \hab28, \hecb4, \h6814, \hfe75,
  \hd1f0, \h9c7c, \h5821, \h770c, \h5e98, \h0d24, \h087f, \hec87, \h2440, \h7dec, \h384a, \h65fe,
  \h6b10, \h09c7, \hf055, \h48fa, \h11c8, \h790f, \hc060, \hc183, \h9ea0, \he857, \h903e, \h5a08,
  \he478, \h989f, \ha00b, \hd371, \h7d08, \hff3b, \h88be, \h6f81, \h07d0, \h8ff3, \hb88b, \he6f8,
  \h88b8, \h1eab, \he8d5, \h7d73, \hf260, \h6e63, \hd8e0, \hf40a, \hbd30, \h1a48, \h10ff, \hd90e,
  \hc7e8, \h6a80, \h20ca, \h5077, \h4880, \hfbd8, \h7094, \hcbfc, \h3258, \h8b10, \h40a1, \h4285,
  \hd620, \h138f, \he0aa, \h91f4, \hacf8, \h6347, \hd09f, \h188d, \h2390, \hf21f, \h80c1, \h8306,
  \h5948, \h82d7, \hb0f4, \h0a7f, \h1618, \hf6fc, \h78eb, \h277b, \h6cc0, \h8634, \h48de, \hae02,
  \he3a8, \h176c, \h1880, \h3589, \h9970, \h67a4, \h28b5, \hbcf0, \hfa11, \hfe77, \h117c, \hdf02,
  \h80c9, \h8ebf, \h2149, \h567b, \h0fa1, \h1fe7, \h7117, \hcdf0, \h7579, \h6f2f, \h4122, \h4489,
  \h3a29, \h1b04, \h893d, \h698d, \h40f1, \h6bcc, \hb908, \he0f4, \hcf99, \hfa94, \he956, \h7b7f,
  \hb541, \h8a5c, \hd963, \hf206, \h5139, \h12c3, \h7968, \h2177, \h2be1, \h620b, \h495d, \ha80e,
  \ha489, \hf353, \h1903, \h3385, \hde51, \h839b, \h2936, \hbafc, \h9101, \hf7b0, \he129, \h97f8,
  \hebd9, \h8778, \hd11c, \h1e81, \h64b1, \h1620, \h8142, \h850a, \h1e69, \h66e8, \hb177, \h0c73,
  \h8719, \h014c, \h99c2, \hb083, \hfdc1, \h7184, \ha9f7, \h39fa, \h72a9, \he0dc, \hf9a9, \ha271,
  \h0871, \h9014, \hc99c, \h2b08, \h4721, \he43f, \h0183, \h060c, \h3df9, \h94f7, \h31b6, \h8f75,
  \hb291, \h05af, \h61e8, \h14fe, \hc849, \h7567, \h51dd, \h9d87, \h2c31, \hedf8, \hf1d6, \h4ef6,
  \h56e9, \h9d30, \hc1e3, \hc78f, \hd981, \h0c68, \h91bd, \h5c04, \ha359, \h7ca0, \ha188, \hd57d,
  \hec09, \h088b, \h6997, \hf879, \h96d1, \h7843, \h59a2, \h7100, \h19b9, \he91b, \h09fc, \hea8b,
  \h6361, \h99d3, \h39c9, \h63f2, \hdf7a, \hdabd, \h7a6e, \h2d6f, \ha5a2, \haa75, \h4a5b, \ha416,
  \h2aca, \h3b2d, \h1a05, \h3f9d, \h5012, \h4be5, \h2a30, \hb6e4, \h1f42, \h3fce, \he22f, \h9be0,
  \h659a, \h4f06, \hd21a, \h1299, \heaf2, \hde5e, \h8244, \h8912, \h902a, \hae96, \hb271, \h006b,
  \h7452, \h3609, \h127a, \hd31a, \h0e8a, \h46c1, \h224f, \h5a63, \h81e2, \hd799, \h7211, \hc1e8,
  \hfb3a, \ha751, \h4224, \h4891, \hb46a, \hd37a, \h8a3b, \h6595, \hceb2, \ha3b2, \hba0e, \hecec,
  \h41da, \h32ea, \hea50, \h7767, \h3b02, \h4222, \hda65, \hfe1e, \ha272, \h2586, \hf2d0, \h42ee,
  \hd8aa, \h554e, \hc2e5, \hcb97, \h57c2, \hc416, \h92bb, \h501c, \h2d1a, \hb4de, \ha28e, \hd965,
  \h624a, \hc0f5, \h6a91, \hf461, \h1892, \hb03d, \h5aa4, \h7d18, \h97fa, \h2165, \h0afa, \he693,
  \hed22, \h51ad, \h3acf, \h6fea, \h095a, \hc932, \h9ac4, \hbc9b, \h7382, \hb9fa, \haaf1, \h35e2,
  \hfcea, \h28a2, \hfaaf, \hae69, \h8632, \h586a, \hca9a, \h2710, \hc962, \h2c41, \h0285, \h0a14,
  \hb3ba, \h5c89, \h32b0, \h836d, \h3cd2, \hcdd1, \h62ee, \h18e6, \h460a, \hbd19, \h52db, \h919f,
  \h256b, \h24ca, \h6b12, \hf26d, \h5fb3, \h5402, \h5b27, \h7b14, \hd0db, \hc55a, \h0b79, \he09f,
  \haa03, \hb592, \h3b4c, \h69e6, \he553, \hc1b9, \hf353, \h44e2, \h9f8b, \hb171, \hc366, \hcd9b,
  \h10e3, \h2029, \h9338, \h5610, \h6a3b, \h50e1, \ha30d, \hdf69, \h8e43, \hc87e, \h0306, \h0c18,
  \hf49b, \hb8b6, \h3333, \h8561, \h7bf3, \h29ee, \h636d, \h1eea, \h012b, \h5926, \h5358, \h9793,
  \h4e7b, \h2d0d, \h9b47, \hba97, \h34a3, \h5dc5, \hab72, \h33ee, \hbbcb, \hcc9d, \hfb2c, \ha865,
  \hc113, \hbc55, \hcb19, \h211c, \h5863, \hdbf1, \he3ac, \h9dec, \h22bb, \hab39, \hd399, \h1495,
  \hadd3, \h3a61, \h83c7, \h8f1e, \hd70b, \h4aa9, \hb3f2, \h0667, \h985b, \h3e82, \h7bed, \h2b63,
  \he283, \h4e4a, \h4bd8, \ha21a, \h6deb, \hdf12, \h1b86, \h3991, \h1733, \hafda, \h2bb3, \hb0e8,
  \hf34b, \h3745, \h8bb8, \h6399, \h8993, \h478d, \hbb8d, \heae0, \h06fb, \hd6d5, \hebd3, \h716b,
  \h7c23, \ha61d, \hdbe6, \hf812, \h3373, \hd236, \h13f9, \hd516, \h49ab, \ha2fe, \h23cc, \h5c6f,
  \hc6c3, \h33a6, \h7392, \hc7e4, \hbc1b, \h436e, \h43a7, \h4e9d, \h95ac, \h9329, \hac4b, \hc9b5,
  \hef74, \he3e1, \h9c7e, \h40cc, \h601c, \h72b9, \hcc20, \hdb47, \h1ac4, \h0271, \hfc15, \h523e,
  \h5594, \h765a, \h340a, \h7f3a, \h2f4c, \h0692, \h043f, \hf643, \ha024, \h97ca, \h5461, \h6dc8,
  \hdafc, \he702, \h6454, \he4b1, \h3e84, \h7f9d, \hc45f, \h37c0, \h445c, \h0f55, \hf46a, \hbeb9,
  \hcb34, \h9e0d, \ha434, \h2532, \hb1ec, \heec5, \h9401, \hac4b, \hfebc, \h9aee, \h5c1e, \h814f,
  \h8464, \hea26, \h6c2b, \h0836, \h0b0c, \h7b7e, \h3c75, \h93bd, \h71d4, \h0bb6, \h0c40, \h1ac4,
  \he8a4, \h6c12, \h24f5, \ha634, \h927c, \h1cda, \h14c0, \h2f4d, \h1d14, \h8d82, \h449e, \hb4c6,
  \h67cc, \hfd4a, \h74ab, \h3dbf, \h289c, \h8961, \hbcb4, \h10bb, \h5244, \hf9a9, \h8c81, \h99c2,
  \hdd2c, \h68f1, \hdcdf, \h0249, \ha7f4, \h1839, \hecea, \h8b30, \h438c, \h80a6, \h4ce1, \h5841,
  \h3954, \hf06e, \h7cd4, \hd138, \hb63c, \h6136, \h2c8a, \h4ab3, \hcce4, \h11fe, \h1cbf, \hc3ca,
  \h83b4, \h65d5, \hd4a0, \heece, \hf96c, \h151d, \he495, \h67b7, \h7604, \h8445, \hb4cb, \hfc3c,
  \h0cdc, \hf48d, \h84fe, \h7545, \h6fbd, \h6d5e, \hbd37, \h16b7, \h1565, \h1d96, \h8d02, \h9fce,
  \h9a0d, \h8cce, \hdd5c, \h0445, \he0d5, \hfc06, \hed69, \h8d3c, \haf85, \h882d, \h2576, \ha038,
  \hd55d, \hf8e5, \h1543, \h2941, \h5a35, \h69bd, \h451d, \hb2ca, \h20ed, \h1975, \h7528, \h3bb3,
  \hc495, \h81ea, \hd523, \he8c2, \hbe4d, \hf122, \he516, \h61bb, \h3125, \h607a, \hb548, \hfa30,
  \h4bfd, \h10b2, \h857d, \h7349, \h04ad, \h6499, \h4d62, \h5e4d, \h7e75, \h1451, \h7d57, \hd734,
  \hf11d, \h8509, \h2d09, \h4cbf, \h8bc5, \hf5c1, \h1d3c, \hc5c6, \h12b5, \h9265, \h3589, \h7936,
  \h686d, \he2ad, \h05bc, \hf04f, \he705, \h73f5, \h55e2, \h6bc4, \h9ddd, \h033d, \h65d7, \he2bd,
  \hd28d, \h7716, \hadc8, \hcfb9, \ha855, \h07de, \h9dfd, \h46c0, \h273d, \h9686, \hcda3, \hdd4b,
  \h5de5, \he64e, \hfd96, \h5432, \hb99d, \h7ed1, \h5d9d, \h8743, \hc345, \h0e19, \h6da8, \h0e3a,
  \h4c2d, \h9f41, \h3df6, \h95b1, \h36f5, \hef89, \h0dc3, \h1cc8, \h79a5, \h9ba2, \hc5dc, \h31cc,
  \h037d, \heb6a, \hf5e9, \hb8b5, \h8c15, \h7a32, \ha5b7, \h233e, \hf6cd, \h0afa, \h9582, \haa47,
  \h4ad6, \h4994, \hd625, \he4da, \h300e, \h395c, \he610, \h6da3, \hbf66, \ha804, \hb64e, \hf628,
  \hc5be, \hd8cc, \h867b, \h7f51, \h8aee, \hace7, \h4e64, \h5255, \hf036, \hdc2f, \h7e51, \hdb2c,
  \h7f5e, \h4d77, \h2e0f, \h40a7, \h0586, \h3dbf, \h1e3a, \hc9de, \he1fe, \ha520, \hbe31, \h1aaf,
  \h9b26, \hd5e8, \h8e04, \h93d6, \h144e, \h44b0, \hde5a, \h085d, \h6e96, \h3478, \hee6f, \h8124,
  \h21c6, \h4053, \h2670, \hac20, \h5b1e, \h309b, \h1645, \h2559, \hd476, \ha1c3, \h461b, \hbed2,
  \haeae, \hd10b, \h762e, \h37ab, \h37de, \hb6af, \h5e9b, \h8b5b, \h4d06, \hc667, \h6eae, \h0222,
  \hc26e, \h573f, \h3ef0, \h99a9, \hb8b6, \h27f7, \h0ec5, \h10d0, \hf7e6, \h53dc, \hc6da, \h3dd4,
  \h8d3e, \h2314, \hf6ef, \hb4ad, \h0256, \hb24c, \ha6b1, \h2f26, \h788e, \hc284, \h9684, \ha65f,
  \h9cf6, \h5a1b, \h368f, \h752e, \he62e, \h2ad3, \h06ba, \hfc57, \h6946, \hbb8b, \h56e4, \h67dc,
  \h139e, \hcb43, \h66d1, \heea5, \h5cce, \hbf68, \haece, \hc3a1, \h2616, \hcfa0, \h9efb, \h4ad8,
  \ha97e, \h5ef8, \hcea5, \hd153, \hd3a6, \h2e30, \hfe90, \h582a, \hb0c7, \hb7e3, \hc759, \h3bd8,
  \hca1f, \hc72b, \hf76c, \hb2a1, \h4577, \h5673, \ha732, \h292a, \h3faf, \h26bb, \h9707, \ha053,
  \h70ff, \h5290, \h5f18, \h8d57, \h0a27, \h2258, \h6f2d, \h042e, \h854f, \hb300, \h3f73, \h9fa5,
  \hff97, \hc3c8, \h0f46, \h16dc, \h1bef, \h5b57, \haf4d, \hc5ad, \h6137, \h2b9f, \h9f78, \h4cd4,
  \hee5f, \hbac7, \hcf26, \hd75f, \h9487, \hca0f, \hff13, \h5e26, \hdbd7, \hbe24, \h370c, \h7322,
  \ha10f, \hceec, \h0739, \hfa5b, \h2e67, \h5fb4, \h5767, \h61d0, \h54bf, \h2f7c, \h6752, \he8a9,
  \hcdcf, \h48d8, \h4fe7, \h5459, \hb717, \h3810, \h7fd2, \hdd20, \h387f, \ha948, \h2f8c, \h46ab,
  \h42a7, \hd980, \h1fb9, \hcfd2, \h0df7, \hadab, \hd7a6, \he2d6, \h772f, \hdd63, \he793, \h6baf,
  \hf847, \h4c3b, \hb7cd, \hf024, \h829f, \h3cf3, \h87f8, \h795d, \h66e7, \ha46c, \h27f3, \haa2c,
  \h1c3f, \hd4a4, \h17c6, \h2355, \h9357, \h45fc, \h4798, \hb8de, \he98f, \h3534, \h77ad, \h31a7,
  \ha6df, \h411f, \hbfb2, \h1ca3, \hdc07, \h31d7, \h8f87, \h95da, \h536f, \ha08f, \hdfd9, \h0e51,
  \h29b7, \hd047, \hefec, \h8728>>

\* Entry number index, counted from 0, of a table with entries of n bytes.
Entry(table, n, index) ==
  LET Word(k) == table[(n \div 2) * index + (k + 1) \div 2]
  IN [k \in 1 .. n |-> IF k % 2 = 1 THEN Word(k) \div 256 ELSE Word(k) % 256]

\* Mutant: the register is not shifted on.
NextCrc_NoShift(table, crc, byte) ==
  LET n == Len(crc)
  IN XorBytes(Entry(table, n, XorByte[crc[n]][byte]), crc)

\* One turn of the loops.
NextCrc(table, crc, byte) ==
  LET n == Len(crc)
  IN XorBytes(Entry(table, n, XorByte[crc[n]][byte]), ByteOn(crc))

\* The register after each turn.
WideRegisters(table, start, data) ==
  LET crc[i \in 0 .. Len(data)] ==
        IF i = 0 THEN start ELSE NextCrc(table, crc[i - 1], data[i])
  IN crc

AllOnes == <<255, 255, 255, 255>>
AllZeros == <<0, 0, 0, 0, 0, 0, 0, 0>>

kcCrc32(data) == XorBytes(WideRegisters(crc32_tab, AllOnes, data)[Len(data)], AllOnes)

kcCrc64(data) == WideRegisters(crc64_tab, AllZeros, data)[Len(data)]

\* part11 tells the names of its tables apart by val - INT32_MAX, in 32 bits,
\* here as two words: INT32_MAX is 0x7fffffff, its low word 0xffff.
kcStr2int(name) ==
  LET val == kcCrc32(name)
      low == val[3] * 256 + val[4] + 1
  IN <<(val[1] * 256 + val[2] + 32768 + (low \div 65536)) % 65536, low % 65536>>

\* The labels of the switch over the table names, 802804853 and 1814018304.
TableLabels == {<<12249, 54389>>, <<27679, 47360>>}

-----------------------------------------------------------------------------
\* The polynomials of the divisions that the two are checked against.
Poly32 == <<237, 184, 131, 32>>
Poly64 == <<149, 172, 147, 41, 172, 75, 201, 181>>

\* Each entry of the tables is the remainder of its byte.
ASSUME WideTablesAssumption ==
  \A byte \in 0 .. 255 :
    /\ \A k \in 1 .. 4 : Entry(crc32_tab, 4, byte)[k] \in 0 .. 255
    /\ Entry(crc32_tab, 4, byte) = EightBits(Poly32, Alone(4, byte))
    /\ \A k \in 1 .. 8 : Entry(crc64_tab, 8, byte)[k] \in 0 .. 255
    /\ Entry(crc64_tab, 8, byte) = EightBits(Poly64, Alone(8, byte))

\* The names of part11's tables, "fivefifty" and "filepointers", have the labels.
TableNames ==
  {<<102, 105, 118, 101, 102, 105, 102, 116, 121>>,
   <<102, 105, 108, 101, 112, 111, 105, 110, 116, 101, 114, 115>>}

ASSUME NamesAssumption == {kcStr2int(name) : name \in TableNames} = TableLabels
=============================================================================
